---- MODULE Spec2Model ----
(***************************************************************************)
(* Shape visibility cache of the PlanarAlly client                         *)
(* (client/src/game/shapes/shape.ts) together with the vision state        *)
(* coordinator, obstruction store and visibility computer it talks to.     *)
(* The shape class is translated from the source; the coordinator, the     *)
(* store and computeVisibility are not part of the sources at hand and     *)
(* follow the written specification (sections 4.1 - 4.3).                  *)
(* Next to it: the snapping point index of a layer (shape.ts), the         *)
(* registry of systems (client/src/game/api/events/initiative.ts) and the  *)
(* upload of files by the asset manager (client/src/assetManager/index.ts).*)
(***************************************************************************)
EXTENDS Integers, Sequences, FiniteSets, TLC

VARIABLES
    floorId,          \* Shape.floorId (NoFloor = undefined)
    refPoint,         \* Shape._refPoint
    center,           \* Shape._center
    angle,            \* Shape._angle, in half turns
    blocksVision,     \* getProperties(id).blocksVision
    blocksMovement,   \* getProperties(id).blocksMovement
    isToken,          \* getProperties(id).isToken
    auras,            \* auraSystem.getAll(id, true)
    floorIteration,   \* Shape.floorIteration
    visionIteration,  \* Shape.visionIteration
    visionPolygon,    \* Shape._visionPolygon
    visionPath,       \* Shape._visionPath
    visionBbox,       \* Shape._visionBbox
    iteration,        \* visionState: iteration counter per target kind and floor
    store,            \* visionState: obstruction store per target kind and floor
    floorIter,        \* floorState.readonly.iteration
    isSnappable,      \* Shape.isSnappable
    layerPoints,      \* layer.points of the layer of each floor: key -> set of shape ids
    SYSTEMS,          \* SYSTEMS, in insertion order
    SHAPE_SYSTEMS,    \* SHAPE_SYSTEMS
    SYSTEMS_STATE,    \* SYSTEMS_STATE
    socket,           \* the asset socket: disconnected, connecting or connected
    root,             \* assetState.root is defined
    rootCallback,     \* the calls waiting in rootCallback.wait(), in order
    expectedUploads,  \* assetState.expectedUploads
    resolvedUploads,  \* assetState.resolvedUploads
    pendingUploads,   \* assetState.pendingUploads
    uploads,          \* each call of upload: its position and local variables
    sent,             \* the Asset.Upload messages emitted so far
    uuids,            \* the number of uuids drawn so far
    folders,          \* assetState.folders
    files,            \* assetState.files
    idMap,            \* assetState.idMap
    selected,         \* assetState.selected
    folderPath,       \* assetState.folderPath
    localIds,         \* the uuids that have a local id reserved
    groups,           \* groupSystem: the settings of each known group
    groupMembers,     \* groupSystem: the members of each known group
    shapeProps,       \* the badge and highlight properties of the active shape
    owned,            \* accessState.hasEditAccess of the active shape
    panel,            \* GroupSettings: its locals and the group of the active shape
    modal,            \* the confirm dialog a handler of GroupSettings waits on
    ev                \* the last operation: its name, receiver, collaborator calls, outcome

vars == <<floorId, refPoint, center, angle, blocksVision, blocksMovement, isToken, auras,
          floorIteration, visionIteration, visionPolygon, visionPath, visionBbox,
          iteration, store, floorIter, isSnappable, layerPoints,
          SYSTEMS, SHAPE_SYSTEMS, SYSTEMS_STATE,
          socket, root, rootCallback, expectedUploads, resolvedUploads, pendingUploads,
          uploads, sent, uuids, folders, files, idMap, selected, folderPath,
          localIds, groups, groupMembers, shapeProps, owned, panel, modal, ev>>

shapeVars == <<floorId, refPoint, center, angle, blocksVision, blocksMovement, isToken, auras>>
cacheVars == <<floorIteration, visionIteration, visionPolygon, visionPath, visionBbox>>
systemVars == <<SYSTEMS, SHAPE_SYSTEMS, SYSTEMS_STATE>>
assetVars == <<socket, root, rootCallback, expectedUploads, resolvedUploads, pendingUploads,
               uploads, sent, uuids>>
\* what the operations of a shape on its vision cache leave alone
listVars == <<folders, files, idMap, selected, folderPath>>
groupVars == <<localIds, groups, groupMembers, shapeProps, owned, panel, modal>>
elseVars == <<isSnappable, layerPoints, systemVars, assetVars, listVars, groupVars>>
\* the same for the operations that end in invalidatePoints
elseVarsP == <<isSnappable, systemVars, assetVars, listVars, groupVars>>
visionVars == <<shapeVars, cacheVars, iteration, store, floorIter>>

----------------------------------------------------------------------------
(* Universe and bounds *)

Max(S) == CHOOSE x \in S : \A y \in S : y <= x
Min(S) == CHOOSE x \in S : \A y \in S : x <= y

\* caps of the unbounded counters
MaxIter == 1
MaxFloorIter == 1
\* cap of the angle rotateAround adds up, in half turns
MaxAngle == 2

Shapes == {1, 2}
Floors == {1, 2}
NoFloor == 0
Points == {<<0, 0>>, <<1, 0>>}
\* the viewport reaches from one unit left of the leftmost position to one
\* unit right of the rightmost one
ViewportLeft == Min({p[1] : p \in Points}) - 1
ViewportRight == Max({p[1] : p \in Points}) + 1
Angles == {0, 1}
Targets == {"VISION", "MOVEMENT"}

\* private floorIteration = -1; private visionIteration = -1;
NoIteration == -1

Undefined == [def |-> FALSE, val |-> <<>>]
Defined(v) == [def |-> TRUE, val |-> v]

----------------------------------------------------------------------------
(* Geometry of a shape.  Shape is abstract: __center() and the point list   *)
(* belong to the variants.  The variant modelled here is a wall of half     *)
(* height 1 standing on its reference point, its centre the reference       *)
(* point; a half turn swaps its two end points.                             *)

__center(s, ref) == ref

points(ref, ang) ==
    IF ang % 2 = 0 THEN << <<ref[1], ref[2] - 1>>, <<ref[1], ref[2] + 1>> >>
               ELSE << <<ref[1], ref[2] + 1>>, <<ref[1], ref[2] - 1>> >>

\* BoundingRect(topLeft, w, h)
BoundingRect(x, y, w, h) == [x |-> x, y |-> y, w |-> w, h |-> h]

intersect(a, b) ==
    LET x == IF a.x > b.x THEN a.x ELSE b.x
        y == IF a.y > b.y THEN a.y ELSE b.y
        r == IF a.x + a.w < b.x + b.w THEN a.x + a.w ELSE b.x + b.w
        q == IF a.y + a.h < b.y + b.h THEN a.y + a.h ELSE b.y + b.h
    IN BoundingRect(x, y, r - x, q - y)

getAABB(ref, ang) ==
    LET pts == points(ref, ang)
        xs == {pts[i][1] : i \in 1..Len(pts)}
        ys == {pts[i][2] : i \in 1..Len(pts)}
    IN BoundingRect(Min(xs), Min(ys), Max(xs) - Min(xs), Max(ys) - Min(ys))

\* BoundingRect.union
union(a, b) ==
    LET x == IF a.x < b.x THEN a.x ELSE b.x
        y == IF a.y < b.y THEN a.y ELSE b.y
        r == IF a.x + a.w > b.x + b.w THEN a.x + a.w ELSE b.x + b.w
        q == IF a.y + a.h > b.y + b.h THEN a.y + a.h ELSE b.y + b.h
    IN BoundingRect(x, y, r - x, q - y)

\* getUnitDistance: one grid cell to the unit
getUnitDistance(r) == r

\* (mutant) every aura counts, vision source or not
auraSkippedNever(aura, onlyVisionSources) == FALSE

\* if ((options?.onlyVisionSources ?? false) && !aura.visionSource) continue
auraSkipped(aura, onlyVisionSources) == onlyVisionSources /\ ~aura.visionSource

RECURSIVE auraLoop(_, _, _, _, _)
\* the for loop of getAuraAABB over the auras from index i on
auraLoop(as, i, aabb, ref, onlyVisionSources) ==
    IF i > Len(as) THEN aabb
    ELSE IF auraSkipped(as[i], onlyVisionSources)
    THEN auraLoop(as, i + 1, aabb, ref, onlyVisionSources)
    ELSE LET range == getUnitDistance(as[i].value + as[i].dim)
         IN auraLoop(as, i + 1,
                     union(aabb, BoundingRect(ref[1] - range, ref[2] - range,
                                              range * 2, range * 2)),
                     ref, onlyVisionSources)

\* getAuraAABB(options) of a shape with the auras as
getAuraAABB(ref, ang, as, onlyVisionSources) ==
    auraLoop(as, 1, getAABB(ref, ang), ref, onlyVisionSources)

----------------------------------------------------------------------------
(* The snapping point index of a layer.  Every floor of the model has one   *)
(* layer; a shape's layer is the layer of its floor.                        *)

\* JSON.stringify(point)
stringify(p) == ToString(p)

\* (mutant) the shape's id is taken out of every set, the keys stay
dropFromPointsKeepsKeys(pts, s) ==
    [k \in DOMAIN pts |-> pts[k] \ {s}]

\* the first loop of updateLayerPoints: the id leaves every set that holds
\* it, and a key whose set held nothing else is deleted
dropFromPoints(pts, s) ==
    LET kept == {k \in DOMAIN pts : ~(s \in pts[k] /\ Cardinality(pts[k]) = 1)}
    IN [k \in kept |-> pts[k] \ {s}]

RECURSIVE addToPoints(_, _, _, _)
\* the second loop of updateLayerPoints over the points from index i on
addToPoints(pts, s, ps, i) ==
    IF i > Len(ps) THEN pts
    ELSE LET strp == stringify(ps[i])
             next == IF strp \in DOMAIN pts
                     THEN [pts EXCEPT ![strp] = @ \cup {s}]
                     ELSE [k \in DOMAIN pts \cup {strp} |->
                             IF k = strp THEN {s} ELSE pts[k]]
         IN addToPoints(next, s, ps, i + 1)

\* updateLayerPoints() of a shape on floor f with the given geometry
updateLayerPoints(lp, s, f, ref, ang) ==
    IF f = NoFloor THEN lp
    ELSE [lp EXCEPT ![f] = addToPoints(dropFromPoints(@, s), s, points(ref, ang), 1)]

\* invalidatePoints(): if (this.isSnappable) this.updateLayerPoints()
invalidatePoints(lp, s, f, ref, ang) ==
    IF isSnappable[s] THEN updateLayerPoints(lp, s, f, ref, ang) ELSE lp

----------------------------------------------------------------------------
(* Vision state coordinator, obstruction store, visibility computer         *)

\* getVisionIteration(floor); a floor that does not exist has no counter
getVisionIteration(f) == IF f \in Floors THEN iteration["VISION"][f] ELSE 0

\* (mutant) the counter steps the wrong way
recalculateDown(it, target, f) ==
    [it EXCEPT ![target][f] = @ - 1]

\* the counters after recalculateVision(f) / recalculateMovement(f)
recalculate(it, target, f) ==
    [it EXCEPT ![target][f] = @ + 1]

\* (mutant) remove forgets the target kind
deleteBothTargets(st, target, f, s) ==
    IF f = NoFloor THEN st
    ELSE [st EXCEPT !["VISION"][f][s] = {}, !["MOVEMENT"][f][s] = {}]

\* (mutant) remove empties the floor's store of that kind
deleteWholeFloor(st, target, f, s) ==
    IF f = NoFloor THEN st
    ELSE [st EXCEPT ![target][f] = [x \in Shapes |-> {}]]

\* remove(floor, target, shapeId): idempotent
deleteFromTriangulation(st, target, f, s) ==
    IF f = NoFloor THEN st ELSE [st EXCEPT ![target][f][s] = {}]

\* add(floor, target, shapeId, segments)
addToTriangulation(st, target, f, s, segs) ==
    IF f = NoFloor THEN st ELSE [st EXCEPT ![target][f][s] = segs]

\* the segments a shape contributes: its wall, directed bottom-up whatever
\* the order of its points
Segments(ref, ang) ==
    LET pts == points(ref, ang)
    IN {IF pts[1][2] <= pts[2][2] THEN pts ELSE <<pts[2], pts[1]>>}

\* All walls of the model are vertical and span the viewport's height, so
\* the region visible from the origin is the slab between the nearest wall
\* on either side, or the viewport's edge.
\* A missing floor is an empty-result condition: the empty polygon.
computeVisibility(st, origin, target, f) ==
    IF f \notin Floors THEN <<>> ELSE
    LET walls == {seg[1][1] : seg \in UNION {st[target][f][s] : s \in Shapes}}
        left  == Max({x \in walls : x < origin[1]} \cup {ViewportLeft})
        right == Min({x \in walls : x > origin[1]} \cup {ViewportRight})
    IN << <<left, 0 - 1>>, <<right, 0 - 1>>, <<right, 1>>, <<left, 1>> >>

\* g2lx / g2ly under the view state of floor redraw generation `view`
Path2D(poly, view) == [pts |-> poly \o <<poly[1]>>, view |-> view]

----------------------------------------------------------------------------
(* Shape: the visibility cache                                              *)

Event(op, s, calls, ret) == [op |-> op, s |-> s, calls |-> calls, ret |-> ret]

\* auraSystem.getAll(this.id, true).some((a) => a.visionSource)
SomeVisionSource(as) == \E i \in 1..Len(as) : as[i].visionSource

\* get triggersVisionRecalc(): boolean
triggersVisionRecalc(s) ==
    isToken[s] \/ blocksMovement[s] \/ SomeVisionSource(auras[s])

TriggersVisionRecalc(s) ==
    /\ ev' = Event("triggersVisionRecalc", s, <<>>,
                   IF triggersVisionRecalc(s) THEN "true" ELSE "false")
    /\ UNCHANGED <<elseVars, shapeVars, cacheVars, iteration, store, floorIter>>

\* (mutant) the reset value is one a counter can take
resetValueZero == NoIteration + 1

\* resetVisionIteration(): this.visionIteration = -1
resetValue == NoIteration

RECURSIVE bboxLoop(_, _, _)
\* the for loop of recalcVisionBbox over the points from index i on
bboxLoop(poly, i, b) ==
    IF i > Len(poly) THEN b
    ELSE LET x == poly[i][1]
             y == poly[i][2]
             bx == IF b.leftX > x THEN [b EXCEPT !.leftX = x]
                   ELSE IF b.rightX < x THEN [b EXCEPT !.rightX = x]
                   ELSE b
             by == IF bx.topY > y THEN [bx EXCEPT !.topY = y]
                   ELSE IF bx.botY < y THEN [bx EXCEPT !.botY = y]
                   ELSE bx
         IN bboxLoop(poly, i + 1, by)

recalcVisionBbox(poly, ref, ang, as) ==
    IF ~poly.def \/ Len(poly.val) = 0 THEN Undefined
    ELSE LET x0 == poly.val[1][1]
             y0 == poly.val[1][2]
             b == bboxLoop(poly.val, 1,
                           [leftX |-> x0, rightX |-> x0, topY |-> y0, botY |-> y0])
         IN Defined(intersect(
                BoundingRect(b.leftX, b.topY, b.rightX - b.leftX, b.botY - b.topY),
                getAuraAABB(ref, ang, as, TRUE)))

\* (mutant) one iteration counter for all floors
visionAlteredAnyFloor(s) ==
    \E f \in Floors : getVisionIteration(f) # visionIteration[s]

\* (mutant) the cache is compared with the counters of both target kinds
visionAlteredAnyTarget(s) ==
    \E t \in Targets :
        (IF floorId[s] \in Floors THEN iteration[t][floorId[s]] ELSE 0) # visionIteration[s]

\* const visionAltered = visionIteration !== this.visionIteration
visionAltered(s) == getVisionIteration(floorId[s]) # visionIteration[s]

\* (mutant) && in place of ||
mustRecomputeBoth(s) == ~visionPolygon[s].def /\ visionAltered(s)

\* if (this._visionPolygon === undefined || visionAltered)
mustRecompute(s) == ~visionPolygon[s].def \/ visionAltered(s)

\* (mutant) the path is rebuilt on every read
mustRepathAlways(s) == TRUE

\* (mutant) the path outlives a redraw
mustRepathIgnoresFloor(s) == ~visionPath[s].def \/ visionAltered(s)

\* if (this._visionPath === undefined || floorIteration != this.floorIteration || visionAltered)
mustRepath(s) ==
    ~visionPath[s].def \/ floorIter # floorIteration[s] \/ visionAltered(s)

\* (mutant) the read does not look at the floor
hasFloorAlways(s) == TRUE

\* if (this.floorId === undefined) return new Path2D(), negated
hasFloor(s) == floorId[s] # NoFloor

\* (mutant) visibility is computed from the reference point
originRefPoint(s) == refPoint[s]

\* the origin handed to computeVisibility: this.center
origin(s) == center[s]

\* get visionPolygon(): Path2D
VisionPolygon(s) ==
    IF ~hasFloor(s)
    THEN /\ ev' = Event("visionPolygon", s, <<>>, "empty")
         /\ UNCHANGED <<elseVars, shapeVars, cacheVars, iteration, store, floorIter>>
    ELSE LET recompute == mustRecompute(s)
             poly == IF recompute
                     THEN Defined(computeVisibility(store, origin(s), "VISION", floorId[s]))
                     ELSE visionPolygon[s]
             repath == mustRepath(s)
             \* this._visionPolygon[0]![0] on a missing polygon or first vertex
             throws == repath /\ (~poly.def \/ Len(poly.val) = 0)
         IN /\ visionPolygon' = [visionPolygon EXCEPT ![s] = poly]
            /\ visionIteration' =
                 IF recompute
                 THEN [visionIteration EXCEPT ![s] = getVisionIteration(floorId[s])]
                 ELSE visionIteration
            /\ visionBbox' =
                 IF recompute
                 THEN [visionBbox EXCEPT ![s] = recalcVisionBbox(poly, refPoint[s], angle[s], auras[s])]
                 ELSE visionBbox
            /\ visionPath' =
                 IF repath /\ ~throws
                 THEN [visionPath EXCEPT ![s] = Defined(Path2D(poly.val, floorIter))]
                 ELSE visionPath
            /\ floorIteration' =
                 IF repath /\ ~throws
                 THEN [floorIteration EXCEPT ![s] = floorIter]
                 ELSE floorIteration
            /\ ev' = Event("visionPolygon", s,
                           IF recompute THEN <<"computeVisibility">> ELSE <<>>,
                           IF throws THEN "throw" ELSE IF repath THEN "new" ELSE "cached")
            /\ UNCHANGED <<elseVars, shapeVars, iteration, store, floorIter>>

\* resetVisionIteration()
ResetVisionIteration(s) ==
    /\ visionIteration' = [visionIteration EXCEPT ![s] = resetValue]
    /\ ev' = Event("resetVisionIteration", s, <<>>, "ok")
    /\ UNCHANGED <<elseVars, shapeVars, floorIteration, visionPolygon, visionPath, visionBbox,
                   iteration, store, floorIter>>

\* (mutant) the center setter keeps the cached polygon
SetCenterKeepsPolygon(s, p) ==
    /\ center' = [center EXCEPT ![s] = p]
    /\ ev' = Event("center", s, <<>>, "ok")
    /\ UNCHANGED <<elseVars, floorId, refPoint, angle, blocksVision, blocksMovement, isToken, auras,
                   cacheVars, iteration, store, floorIter>>

\* set center(centerPoint)
SetCenter(s, p) ==
    /\ center' = [center EXCEPT ![s] = p]
    /\ visionPolygon' = [visionPolygon EXCEPT ![s] = Undefined]
    /\ ev' = Event("center", s, <<>>, "ok")
    /\ UNCHANGED <<elseVars, floorId, refPoint, angle, blocksVision, blocksMovement, isToken, auras,
                   floorIteration, visionIteration, visionPath, visionBbox,
                   iteration, store, floorIter>>

\* set refPoint(point)
SetRefPoint(s, p) ==
    /\ refPoint' = [refPoint EXCEPT ![s] = p]
    /\ center' = [center EXCEPT ![s] = __center(s, p)]
    /\ visionIteration' = [visionIteration EXCEPT ![s] = resetValue]
    /\ layerPoints' = invalidatePoints(layerPoints, s, floorId[s], p, angle[s])
    /\ ev' = Event("refPoint", s, <<>>, "ok")
    /\ UNCHANGED <<elseVarsP, floorId, angle, blocksVision, blocksMovement, isToken, auras,
                   floorIteration, visionPolygon, visionPath, visionBbox,
                   iteration, store, floorIter>>

\* set angle(angle)
SetAngle(s, a) ==
    /\ angle' = [angle EXCEPT ![s] = a]
    /\ layerPoints' = invalidatePoints(layerPoints, s, floorId[s], refPoint[s], a)
    /\ ev' = Event("angle", s, <<>>, "ok")
    /\ UNCHANGED <<elseVarsP, floorId, refPoint, center, blocksVision, blocksMovement, isToken, auras,
                   cacheVars, iteration, store, floorIter>>

\* rotateAroundPoint(center, point, angle), in half turns
rotateAroundPoint(c, p, a) ==
    IF a % 2 = 0 THEN c ELSE <<2 * p[1] - c[1], 2 * p[2] - c[2]>>

\* rotateAround(point, angle); the shape stays within the viewport
RotateAround(s, point, a) ==
    LET moved == point # center[s]
        c == IF moved THEN rotateAroundPoint(center[s], point, a) ELSE center[s]
    IN /\ angle[s] + a <= MaxAngle
       /\ c[1] \in ViewportLeft..ViewportRight
       /\ center' = [center EXCEPT ![s] = c]
       /\ visionPolygon' = IF moved THEN [visionPolygon EXCEPT ![s] = Undefined]
                           ELSE visionPolygon
       /\ angle' = [angle EXCEPT ![s] = @ + a]
       /\ layerPoints' = invalidatePoints(layerPoints, s, floorId[s], refPoint[s],
                                          angle[s] + a)
       /\ ev' = Event("rotateAround", s,
                      IF moved THEN <<"center", "angle">> ELSE <<"angle">>, "ok")
       /\ UNCHANGED <<elseVarsP, floorId, refPoint, blocksVision, blocksMovement, isToken, auras,
                      floorIteration, visionIteration, visionPath, visionBbox,
                      iteration, store, floorIter>>

\* setLayer(floor, layer)
SetLayer(s, f) ==
    /\ floorId' = [floorId EXCEPT ![s] = f]
    /\ ev' = Event("setLayer", s, <<>>, "ok")
    /\ UNCHANGED <<elseVars, refPoint, center, angle, blocksVision, blocksMovement, isToken, auras,
                   cacheVars, iteration, store, floorIter>>

\* updateLayerPoints() called on its own
UpdateLayerPoints(s) ==
    /\ layerPoints' = updateLayerPoints(layerPoints, s, floorId[s], refPoint[s], angle[s])
    /\ ev' = Event("updateLayerPoints", s, <<>>, "ok")
    /\ UNCHANGED <<visionVars, elseVarsP>>

\* (mutant) both branches end in recalculateVision
retriangulateVisionBump(w, target, s, f, ref, ang) ==
    LET st1 == deleteFromTriangulation(w.store, target, f, s)
        st2 == addToTriangulation(st1, target, f, s, Segments(ref, ang))
    IN [store |-> st2,
        iteration |-> IF f # NoFloor THEN recalculate(w.iteration, "VISION", f)
                      ELSE w.iteration,
        calls |-> w.calls \o <<"delete." \o target, "add." \o target>>
                  \o (IF f # NoFloor THEN <<"recalculateVision">> ELSE <<>>)]

\* (mutant) the counter is bumped before the store is updated
retriangulateBumpFirst(w, target, s, f, ref, ang) ==
    LET st1 == deleteFromTriangulation(w.store, target, f, s)
        st2 == addToTriangulation(st1, target, f, s, Segments(ref, ang))
        name == IF target = "VISION" THEN "recalculateVision" ELSE "recalculateMovement"
    IN [store |-> st2,
        iteration |-> IF f # NoFloor THEN recalculate(w.iteration, target, f)
                      ELSE w.iteration,
        calls |-> w.calls \o (IF f # NoFloor THEN <<name>> ELSE <<>>)
                  \o <<"delete." \o target, "add." \o target>>]

\* One branch of updateShapeVision: delete, add, and the bump when the
\* shape has a floor.  w = [store, iteration, calls].
retriangulate(w, target, s, f, ref, ang) ==
    LET st1 == deleteFromTriangulation(w.store, target, f, s)
        st2 == addToTriangulation(st1, target, f, s, Segments(ref, ang))
        name == IF target = "VISION" THEN "recalculateVision" ELSE "recalculateMovement"
    IN [store |-> st2,
        iteration |-> IF f # NoFloor THEN recalculate(w.iteration, target, f)
                      ELSE w.iteration,
        calls |-> w.calls \o <<"delete." \o target, "add." \o target>>
                  \o (IF f # NoFloor THEN <<name>> ELSE <<>>)]

\* if (props.blocksVision && !alteredVision)
visionBranch(s, alteredVision) == blocksVision[s] /\ ~alteredVision

\* (mutant) the movement branch looks at the vision flag
movementBranchOnVisionFlag(s, alteredMovement) == blocksVision[s] /\ ~alteredMovement

\* if (props.blocksMovement && !alteredMovement)
movementBranch(s, alteredMovement) == blocksMovement[s] /\ ~alteredMovement

\* updateShapeVision(alteredMovement, alteredVision) of a shape with the
\* given floor and geometry, from the store and counters of the state
updateShapeVision(s, f, ref, ang, alteredMovement, alteredVision) ==
    LET w0 == [store |-> store, iteration |-> iteration, calls |-> <<>>]
        w1 == IF visionBranch(s, alteredVision)
              THEN retriangulate(w0, "VISION", s, f, ref, ang) ELSE w0
        w2 == [w1 EXCEPT !.calls = @ \o <<"invalidate", "invalidateLightAllFloors">>]
    IN IF movementBranch(s, alteredMovement)
       THEN retriangulate(w2, "MOVEMENT", s, f, ref, ang) ELSE w2

InRange(it) == \A t \in Targets, f \in Floors : it[t][f] <= MaxIter

\* (mutant) updateShapeVision resets the shape's own cache
UpdateShapeVisionResets(s, alteredMovement, alteredVision) ==
    LET w == updateShapeVision(s, floorId[s], refPoint[s], angle[s],
                               alteredMovement, alteredVision)
    IN /\ InRange(w.iteration)
       /\ store' = w.store
       /\ iteration' = w.iteration
       /\ visionIteration' = [visionIteration EXCEPT ![s] = resetValue]
       /\ ev' = Event("updateShapeVision", s, w.calls, "ok")
       /\ UNCHANGED <<elseVars, shapeVars, floorIteration, visionPolygon, visionPath, visionBbox,
                      floorIter>>

UpdateShapeVision(s, alteredMovement, alteredVision) ==
    LET w == updateShapeVision(s, floorId[s], refPoint[s], angle[s],
                               alteredMovement, alteredVision)
    IN /\ InRange(w.iteration)
       /\ store' = w.store
       /\ iteration' = w.iteration
       /\ ev' = Event("updateShapeVision", s, w.calls, "ok")
       /\ UNCHANGED <<elseVars, shapeVars, cacheVars, floorIter>>

\* setPositionRepresentation(position)
SetPositionRepresentation(s, position) ==
    IF Len(position.points) = 0
    THEN /\ ev' = Event("setPositionRepresentation", s, <<>>, "return")
         /\ UNCHANGED <<elseVars, shapeVars, cacheVars, iteration, store, floorIter>>
    ELSE LET ref == position.points[1]
             w == updateShapeVision(s, floorId[s], ref, position.angle, FALSE, FALSE)
         IN /\ InRange(w.iteration)
            /\ refPoint' = [refPoint EXCEPT ![s] = ref]
            /\ center' = [center EXCEPT ![s] = __center(s, ref)]
            /\ angle' = [angle EXCEPT ![s] = position.angle]
            /\ visionIteration' = [visionIteration EXCEPT ![s] = resetValue]
            /\ store' = w.store
            /\ iteration' = w.iteration
            /\ layerPoints' = invalidatePoints(layerPoints, s, floorId[s], ref,
                                               position.angle)
            /\ ev' = Event("setPositionRepresentation", s, w.calls, "ok")
            /\ UNCHANGED <<elseVarsP, floorId, blocksVision, blocksMovement, isToken, auras, floorIteration,
                           visionPolygon, visionPath, visionBbox, floorIter>>

\* visionState.recalculateVision(floor)
RecalculateVision(f) ==
    /\ iteration["VISION"][f] < MaxIter
    /\ iteration' = recalculate(iteration, "VISION", f)
    /\ ev' = Event("recalculateVision", f, <<>>, "ok")
    /\ UNCHANGED <<elseVars, shapeVars, cacheVars, store, floorIter>>

\* visionState.recalculateMovement(floor)
RecalculateMovement(f) ==
    /\ iteration["MOVEMENT"][f] < MaxIter
    /\ iteration' = recalculate(iteration, "MOVEMENT", f)
    /\ ev' = Event("recalculateMovement", f, <<>>, "ok")
    /\ UNCHANGED <<elseVars, shapeVars, cacheVars, store, floorIter>>

\* visionState.addToTriangulation({ target, shape }) called from outside the
\* shape: the shape's floor and segments are looked up from its id
AddToTriangulation(t, s) ==
    /\ store' = addToTriangulation(store, t, floorId[s], s, Segments(refPoint[s], angle[s]))
    /\ ev' = Event("addToTriangulation", s, <<"add." \o t>>, "ok")
    /\ UNCHANGED <<elseVars, shapeVars, cacheVars, iteration, floorIter>>

\* visionState.deleteFromTriangulation({ target, shape }) called from outside
\* the shape
DeleteFromTriangulation(t, s) ==
    /\ store' = deleteFromTriangulation(store, t, floorId[s], s)
    /\ ev' = Event("deleteFromTriangulation", s, <<"delete." \o t>>, "ok")
    /\ UNCHANGED <<elseVars, shapeVars, cacheVars, iteration, floorIter>>

\* zoom or pan: the floor redraw counter moves on
Redraw ==
    /\ floorIter < MaxFloorIter
    /\ floorIter' = floorIter + 1
    /\ ev' = Event("redraw", 0, <<>>, "ok")
    /\ UNCHANGED <<elseVars, shapeVars, cacheVars, iteration, store>>

----------------------------------------------------------------------------
(* The registry of systems                                                  *)

Keys == {"k1", "k2"}
Systems == {"sysA", "sysB"}
NoState == "undefined"
States == {NoState, "state"}

\* key in record
has(rec, key) == \E i \in 1..Len(rec) : rec[i].key = key

\* record[key]
get(rec, key) == rec[CHOOSE i \in 1..Len(rec) : rec[i].key = key].value

\* record[key] = value; Object.entries keeps the order of first insertion
assign(rec, key, value) ==
    IF has(rec, key)
    THEN [i \in 1..Len(rec) |->
            IF rec[i].key = key THEN [key |-> key, value |-> value] ELSE rec[i]]
    ELSE Append(rec, [key |-> key, value |-> value])

\* (mutant) every key is entered as a shape system
shapeSystemsAddAlways(ss, key, isShapeSystem) == ss \cup {key}

\* if (isShapeSystem) SHAPE_SYSTEMS.add(key)
shapeSystemsAdd(ss, key, isShapeSystem) ==
    IF isShapeSystem THEN ss \cup {key} ELSE ss

\* registerSystem(key, system, isShapeSystem, state)
RegisterSystem(key, system, isShapeSystem, state) ==
    /\ SYSTEMS' = assign(SYSTEMS, key, system)
    /\ SHAPE_SYSTEMS' = shapeSystemsAdd(SHAPE_SYSTEMS, key, isShapeSystem)
    /\ SYSTEMS_STATE' = IF state # NoState THEN assign(SYSTEMS_STATE, key, state)
                        ELSE SYSTEMS_STATE
    /\ ev' = Event("registerSystem", key,
                   IF isShapeSystem THEN <<"SHAPE_SYSTEMS.add">> ELSE <<>>, "ok")
    /\ UNCHANGED <<visionVars, isSnappable, layerPoints, assetVars, listVars, groupVars>>

\* the entries of SYSTEMS dropFromSystems calls drop on, in the order of the
\* loop: for (const [key, system] of Object.entries(SYSTEMS))
\*           if (SHAPE_SYSTEMS.has(key)) system.drop(id)
dropTargets(sys, ss) ==
    LET isShape(e) == e.key \in ss
    IN SelectSeq(sys, isShape)

\* dropFromSystems(id); the calls are the systems drop(id) is called on
DropFromSystems(id) ==
    /\ ev' = Event("dropFromSystems", id,
                   LET t == dropTargets(SYSTEMS, SHAPE_SYSTEMS)
                   IN [i \in 1..Len(t) |-> t[i].value], "ok")
    /\ UNCHANGED <<visionVars, elseVars>>

\* clearSystems(partial); the calls are the systems clear(partial) is called on
ClearSystems(partial) ==
    /\ ev' = Event("clearSystems", partial,
                   [i \in 1..Len(SYSTEMS) |-> SYSTEMS[i].value], "ok")
    /\ UNCHANGED <<visionVars, elseVars>>

----------------------------------------------------------------------------
(* The asset manager: upload, resolveUpload, setFolderData.  The socket and *)
(* the callback provider are libraries: connect() of a disconnected socket  *)
(* starts connecting, the socket counts as disconnected until the           *)
(* connection stands, acknowledgements reach the client over a standing     *)
(* connection only, and wait() resolves at the next resolveAll().           *)

Calls == {1, 2}
CHUNK_SIZE == 100000
FileNames == {"a", "b"}

Idle == [pc |-> "idle", closeSocket |-> FALSE, fls |-> <<>>, file |-> 0,
         slices |-> 0, slice |-> 0, uuid |-> 0, uploadedFiles |-> <<>>]

\* the state of the asset manager and its socket as one value
Assets == [socket |-> socket, root |-> root, rootCallback |-> rootCallback,
           expectedUploads |-> expectedUploads, resolvedUploads |-> resolvedUploads,
           pendingUploads |-> pendingUploads, uploads |-> uploads, sent |-> sent,
           uuids |-> uuids]

Commit(a) ==
    /\ socket' = a.socket
    /\ root' = a.root
    /\ rootCallback' = a.rootCallback
    /\ expectedUploads' = a.expectedUploads
    /\ resolvedUploads' = a.resolvedUploads
    /\ pendingUploads' = a.pendingUploads
    /\ uploads' = a.uploads
    /\ sent' = a.sent
    /\ uuids' = a.uuids

\* Math.ceil(n / d) of a size
ceil(n, d) == (n + d - 1) \div d

\* uuidv4(): a value not drawn before
uuidv4(n) == n + 1

\* Math.min(CHUNK_SIZE, file.size - slice * CHUNK_SIZE): the bytes of a slice
sliceLength(size, slice) ==
    IF CHUNK_SIZE < size - slice * CHUNK_SIZE THEN CHUNK_SIZE
    ELSE size - slice * CHUNK_SIZE

\* (mutant) the loop steps over a slice
nextSliceSkips(slice) == slice + 2

\* slice++
nextSlice(slice) == slice + 1

\* const slices = Math.ceil(file.size / CHUNK_SIZE)
slicesOf(size) == ceil(size, CHUNK_SIZE)

\* the head of the outer loop for file i of call u:
\* uuid = uuidv4(); slices = ...; pendingUploads.push(file.name)
startFile(a, u, i) ==
    LET file == a.uploads[u].fls[i]
    IN [a EXCEPT !.uuids = @ + 1,
                 !.pendingUploads = Append(@, file.name),
                 !.uploads[u].file = i,
                 !.uploads[u].uuid = uuidv4(a.uuids),
                 !.uploads[u].slices = slicesOf(file.size),
                 !.uploads[u].slice = 0]

RECURSIVE run(_, _)
\* call u runs on from its position up to its next await or its return
run(a, u) ==
    LET up == a.uploads[u]
    IN IF up.file > Len(up.fls)
       THEN \* if (closeSocket) socket.disconnect(); return uploadedFiles
            [a EXCEPT !.socket = IF up.closeSocket THEN "disconnected" ELSE @,
                      !.uploads[u].pc = "done"]
       ELSE IF up.file > 0 /\ up.slice < up.slices
       THEN \* socket.emit("Asset.Upload", uploadData, resolve)
            LET file == up.fls[up.file]
            IN [a EXCEPT !.sent = Append(@, [name |-> file.name,
                                             data |-> sliceLength(file.size, up.slice),
                                             slice |-> up.slice,
                                             totalSlices |-> up.slices,
                                             uuid |-> up.uuid]),
                         !.uploads[u].pc = "awaitAck"]
       ELSE IF up.file + 1 > Len(up.fls)
       THEN run([a EXCEPT !.uploads[u].file = up.file + 1], u)
       ELSE run(startFile(a, u, up.file + 1), u)

NoAsset == 0
\* the id of the root folder, once the server has named it
RootId == 1

\* assetState.currentFolder: the last folder of the path, else the root
currentFolder(path, rootDefined) ==
    IF path # <<>> THEN path[Len(path)].id
    ELSE IF rootDefined THEN RootId ELSE NoAsset

\* (mutant) the files are counted before the target is looked up
beginCountsFirst(a, u) ==
    IF currentFolder(folderPath, a.root) = NoAsset
    THEN [a EXCEPT !.expectedUploads = @ + Len(a.uploads[u].fls),
                   !.uploads[u].pc = "thrown"]
    ELSE run([a EXCEPT !.expectedUploads = @ + Len(a.uploads[u].fls)], u)

\* upload from the line after the wait: the target, expectedUploads, the loop
begin(a, u) ==
    IF currentFolder(folderPath, a.root) = NoAsset
    THEN \* throw new Error("Upload target was not found. ...")
         [a EXCEPT !.uploads[u].pc = "thrown"]
    ELSE run([a EXCEPT !.expectedUploads = @ + Len(a.uploads[u].fls)], u)

\* upload(fls) up to its first await
Upload(u, fls) ==
    /\ uploads[u].pc = "idle"
    /\ LET closeSocket == socket # "connected"
           a0 == [Assets EXCEPT !.uploads[u].fls = fls,
                                !.uploads[u].closeSocket = closeSocket]
           a1 == IF closeSocket
                 THEN \* socket.connect(); await assetSystem.rootCallback.wait()
                      [a0 EXCEPT !.socket = IF @ = "disconnected" THEN "connecting" ELSE @,
                                 !.rootCallback = Append(@, u),
                                 !.uploads[u].pc = "waitRoot"]
                 ELSE begin(a0, u)
       IN /\ Commit(a1)
          /\ ev' = Event("upload", u, IF closeSocket THEN <<"connect">> ELSE <<>>,
                         a1.uploads[u].pc)
    /\ UNCHANGED <<visionVars, isSnappable, layerPoints, systemVars, listVars, groupVars>>

\* the connection of the socket stands
Connected ==
    /\ socket = "connecting"
    /\ socket' = "connected"
    /\ ev' = Event("connect", 0, <<>>, "ok")
    /\ UNCHANGED <<visionVars, isSnappable, layerPoints, systemVars, listVars, groupVars,
                   root, rootCallback,
                   expectedUploads, resolvedUploads, pendingUploads, uploads, sent, uuids>>

RECURSIVE resolveAll(_, _, _)
\* rootCallback.resolveAll(): the waiting calls run on, in the order they waited
resolveAll(a, waiting, i) ==
    IF i > Len(waiting) THEN a
    ELSE resolveAll(begin(a, waiting[i]), waiting, i + 1)

\* setRoot(root), on the server's answer to a connection
SetRoot ==
    /\ socket = "connected"
    /\ ~root \/ rootCallback # <<>>
    /\ Commit(resolveAll([Assets EXCEPT !.root = TRUE, !.rootCallback = <<>>],
                         rootCallback, 1))
    /\ ev' = Event("setRoot", 0, rootCallback, "ok")
    /\ UNCHANGED <<visionVars, isSnappable, layerPoints, systemVars, listVars, groupVars>>

\* the acknowledgement of the slice call u waits for: the asset comes with
\* the last slice of a file only
Ack(u) ==
    /\ uploads[u].pc = "awaitAck"
    /\ socket = "connected"
    /\ LET up == uploads[u]
           last == up.slice = up.slices - 1
           a1 == [Assets EXCEPT
                    !.uploads[u].uploadedFiles =
                        IF last THEN Append(@, up.fls[up.file].name) ELSE @,
                    !.uploads[u].slice = nextSlice(@)]
           a2 == run(a1, u)
       IN /\ Commit(a2)
          /\ ev' = Event("ack", u, <<>>, a2.uploads[u].pc)
    /\ UNCHANGED <<visionVars, isSnappable, layerPoints, systemVars, listVars, groupVars>>

\* (mutant) the counters are reset one upload late
resetDueLate(expected, resolved) == expected < resolved

\* if (raw.expectedUploads <= raw.resolvedUploads)
resetDue(expected, resolved) == expected <= resolved

\* pendingUploads.findIndex((f) => f === file), 0 for -1
findIndex(pending, file) ==
    IF \E i \in 1..Len(pending) : pending[i] = file
    THEN Min({i \in 1..Len(pending) : pending[i] = file})
    ELSE 0

\* pendingUploads.splice(idx, 1)
splice(pending, idx) ==
    [i \in 1..(Len(pending) - 1) |-> IF i < idx THEN pending[i] ELSE pending[i + 1]]

\* resolveUpload(file)
resolveUpload(a, file) ==
    LET idx == findIndex(a.pendingUploads, file)
    IN IF idx = 0 THEN a
       ELSE LET reset == resetDue(a.expectedUploads, a.resolvedUploads + 1)
            IN [a EXCEPT !.pendingUploads = splice(@, idx),
                         !.resolvedUploads = IF reset THEN 0 ELSE @ + 1,
                         !.expectedUploads = IF reset THEN 0 ELSE @]

ResolveUpload(file) ==
    /\ socket = "connected"
    /\ Commit(resolveUpload(Assets, file))
    /\ ev' = Event("resolveUpload", file, <<>>, "ok")
    /\ UNCHANGED <<visionVars, isSnappable, layerPoints, systemVars, listVars, groupVars>>

\* the most ids a list of the listing is let grow to
MaxList == 2

AssetIds == {2, 3}
\* ApiAsset: id, name, and whether fileHash is not null
ApiAssets == [id : AssetIds, name : FileNames, isFile : BOOLEAN]

\* the listing as one value
Listing == [folders |-> folders, files |-> files, idMap |-> idMap, selected |-> selected]

CommitListing(l) ==
    /\ folders' = l.folders
    /\ files' = l.files
    /\ idMap' = l.idMap
    /\ selected' = l.selected

\* array.includes(x)
includes(list, x) == \E i \in 1..Len(list) : list[i] = x

\* array.indexOf(x), 0 for -1
indexOf(list, x) ==
    IF includes(list, x) THEN Min({i \in 1..Len(list) : list[i] = x}) ELSE 0

\* array.splice(idx, 1) with idx from indexOf: a start of -1 counts from the
\* end, the last element goes
spliceOne(list, idx) ==
    LET at == IF idx = 0 THEN Len(list) ELSE idx
    IN IF Len(list) = 0 THEN list
       ELSE [i \in 1..(Len(list) - 1) |-> IF i < at THEN list[i] ELSE list[i + 1]]

\* idMap.set(id, asset)
mapSet(map, id, asset) ==
    [k \in DOMAIN map \cup {id} |-> IF k = id THEN asset ELSE map[k]]

\* idMap.delete(id)
mapDelete(map, id) == [k \in DOMAIN map \ {id} |-> map[k]]

\* a.name.localeCompare(b.name) < 0 over the names of the model
nameBefore(a, b) == a = "a" /\ b = "b"

RECURSIVE insertSorted(_, _, _)
\* the place of id in a list sorted by name, behind the ids of equal name
insertSorted(sorted, id, map) ==
    IF sorted = <<>> THEN <<id>>
    ELSE IF nameBefore(map[id].name, map[Head(sorted)].name)
    THEN <<id>> \o sorted
    ELSE <<Head(sorted)>> \o insertSorted(Tail(sorted), id, map)

RECURSIVE sortedFrom(_, _, _, _)
\* target.map(get).filter(defined).sort(by name).map(id), from index i on
sortedFrom(list, map, i, acc) ==
    IF i > Len(list) THEN acc
    ELSE IF list[i] \notin DOMAIN map THEN sortedFrom(list, map, i + 1, acc)
    ELSE sortedFrom(list, map, i + 1, insertSorted(acc, list[i], map))

\* addAsset(asset, parent); NoAsset for no parent
addAsset(l, asset, parent, current) ==
    IF parent # NoAsset /\ parent # current THEN l
    ELSE LET map == mapSet(l.idMap, asset.id, asset)
         IN IF asset.isFile
            THEN [l EXCEPT !.idMap = map,
                           !.files = sortedFrom(Append(l.files, asset.id), map, 1, <<>>)]
            ELSE [l EXCEPT !.idMap = map,
                           !.folders = sortedFrom(Append(l.folders, asset.id), map, 1, <<>>)]

\* removeAsset(asset)
removeAsset(l, asset) ==
    IF includes(l.files, asset)
    THEN [l EXCEPT !.files = spliceOne(@, indexOf(@, asset)),
                   !.idMap = mapDelete(@, asset)]
    ELSE [l EXCEPT !.folders = spliceOne(@, indexOf(@, asset)),
                   !.idMap = mapDelete(@, asset)]

\* the lists stay within their bound
ListsInBound(l) == Len(l.folders) <= MaxList /\ Len(l.files) <= MaxList

AddAsset(asset, parent) ==
    LET l == addAsset(Listing, asset, parent, currentFolder(folderPath, root))
    IN /\ ListsInBound(l)
       /\ CommitListing(l)
       /\ ev' = Event("addAsset", asset.id, <<>>, "ok")
       /\ UNCHANGED <<visionVars, isSnappable, layerPoints, systemVars, assetVars,
                      folderPath, groupVars>>

RemoveAsset(asset) ==
    /\ CommitListing(removeAsset(Listing, asset))
    /\ ev' = Event("removeAsset", asset, <<>>, "ok")
    /\ UNCHANGED <<visionVars, isSnappable, layerPoints, systemVars, assetVars,
                   folderPath, groupVars>>

\* moveInode(inode, targetFolder)
MoveInode(inode, targetFolder) ==
    /\ IF includes(files, inode)
       THEN /\ files' = spliceOne(files, indexOf(files, inode))
            /\ UNCHANGED folders
       ELSE /\ folders' = spliceOne(folders, indexOf(folders, inode))
            /\ UNCHANGED files
    /\ ev' = Event("moveInode", inode, <<"sendInodeMove">>, "ok")
    /\ UNCHANGED <<visionVars, isSnappable, layerPoints, systemVars, assetVars,
                   idMap, selected, folderPath, groupVars>>

\* clear()
Clear ==
    /\ folders' = <<>>
    /\ files' = <<>>
    /\ ev' = Event("clear", 0, <<>>, "ok")
    /\ UNCHANGED <<visionVars, isSnappable, layerPoints, systemVars, assetVars,
                   idMap, selected, folderPath, groupVars>>

\* addSelectedInode(inode)
AddSelectedInode(inode) ==
    /\ Len(selected) < MaxList
    /\ selected' = Append(selected, inode)
    /\ ev' = Event("addSelectedInode", inode, <<>>, "ok")
    /\ UNCHANGED <<visionVars, isSnappable, layerPoints, systemVars, assetVars,
                   folders, files, idMap, folderPath, groupVars>>

RECURSIVE removeAll(_, _, _)
\* the loop of removeSelection over the selection from index i on
removeAll(l, sel, i) ==
    IF i > Len(sel) THEN l
    ELSE removeAll(removeAsset(l, sel[i]), sel, i + 1)

\* removeSelection()
RemoveSelection ==
    /\ CommitListing([removeAll(Listing, selected, 1) EXCEPT !.selected = <<>>])
    /\ ev' = Event("removeSelection", selected,
                   [i \in 1..Len(selected) |-> "sendAssetRemove"], "ok")
    /\ UNCHANGED <<visionVars, isSnappable, layerPoints, systemVars, assetVars,
                   folderPath, groupVars>>

\* the target "POP" of changeDirectory
POP == -1

\* array.pop()
pop(list) == IF list = <<>> THEN list ELSE SubSeq(list, 1, Len(list) - 1)

RECURSIVE popToAbove(_, _, _)
\* (mutant) the loop stops one folder above the target
popToAbove(path, target, rootDefined) ==
    IF path = <<>> \/ currentFolder(path, rootDefined) = target THEN pop(path)
    ELSE popToAbove(pop(path), target, rootDefined)

RECURSIVE popTo(_, _, _)
\* while (currentFolder !== targetFolder) folderPath.pop(); the loop is only
\* entered with the target on the path
popTo(path, target, rootDefined) ==
    IF path = <<>> \/ currentFolder(path, rootDefined) = target THEN path
    ELSE popTo(pop(path), target, rootDefined)

\* the folder path changeDirectory leaves behind
changedPath(path, target, rootDefined, map) ==
    IF target = POP THEN pop(path)
    ELSE IF rootDefined /\ target = RootId THEN <<>>
    ELSE IF \E i \in 1..Len(path) : path[i].id = target
    THEN popTo(path, target, rootDefined)
    ELSE IF target \in DOMAIN map
    THEN Append(path, [id |-> target, name |-> map[target].name])
    ELSE path

\* the branch changeDirectory takes
branchOf(path, target, rootDefined, map) ==
    IF target = POP THEN "pop"
    ELSE IF rootDefined /\ target = RootId THEN "root"
    ELSE IF \E i \in 1..Len(path) : path[i].id = target THEN "up"
    ELSE IF target \in DOMAIN map THEN "push"
    ELSE "unknown"

\* changeDirectory(targetFolder); the event tells the branch taken and the
\* number of folders that left the path
ChangeDirectory(target) ==
    /\ folderPath' = changedPath(folderPath, target, root, idMap)
    /\ selected' = <<>>
    /\ ev' = Event("changeDirectory", target,
                   <<[fn |-> "sendFolderGet", folder |-> currentFolder(folderPath', root)]>>,
                   [branch |-> branchOf(folderPath, target, root, idMap),
                    popped |-> Len(folderPath) - Len(folderPath')])
    /\ UNCHANGED <<visionVars, isSnappable, layerPoints, systemVars, assetVars,
                   folders, files, idMap, groupVars>>

RECURSIVE addChildren(_, _, _, _)
\* the addAsset calls of the loop of setFolderData from index i on
addChildren(l, children, i, current) ==
    IF i > Len(children) THEN l
    ELSE addChildren(addAsset(l, children[i], NoAsset, current), children, i + 1, current)

RECURSIVE resolveChildren(_, _, _)
\* the loop of setFolderData over the children from index i on
resolveChildren(a, children, i) ==
    IF i > Len(children) THEN a
    ELSE resolveChildren(resolveUpload(a, children[i]), children, i + 1)

\* setFolderData(folder, data), with data.children; the event names the
\* children
SetFolderData(folder, children) ==
    LET names == [i \in 1..Len(children) |-> children[i].name]
        data == [id |-> folder, name |-> "a", isFile |-> FALSE]
        l == addChildren([Listing EXCEPT !.idMap = mapSet(@, folder, data)],
                         children, 1, currentFolder(folderPath, root))
    IN /\ socket = "connected"
       /\ ListsInBound(l)
       /\ Commit(resolveChildren(Assets, names, 1))
       /\ CommitListing(l)
       /\ ev' = Event("setFolderData", names, <<>>, "ok")
       /\ UNCHANGED <<visionVars, isSnappable, layerPoints, systemVars, folderPath,
                      groupVars>>

----------------------------------------------------------------------------

Positions == {[angle |-> a, points |-> pts] :
                a \in Angles, pts \in {<<>>} \cup {<<p>> : p \in Points}}

\* no shape is a token or carries an aura
InitNoTokens ==
    /\ isToken = [s \in Shapes |-> FALSE]
    /\ auras = [s \in Shapes |-> <<>>]

\* no layer has indexed a point yet
InitLayers == layerPoints = [f \in Floors |-> <<>>]

\* no system is registered
InitSystems ==
    /\ SYSTEMS = <<>>
    /\ SHAPE_SYSTEMS = {}
    /\ SYSTEMS_STATE = <<>>

\* the asset manager as constructed, its socket not connected
InitAssets ==
    /\ socket = "disconnected"
    /\ root = FALSE
    /\ rootCallback = <<>>
    /\ expectedUploads = 0
    /\ resolvedUploads = 0
    /\ pendingUploads = <<>>
    /\ uploads = [u \in Calls |-> Idle]
    /\ sent = <<>>
    /\ uuids = 0

\* the asset listing as created
InitLists ==
    /\ folders = <<>>
    /\ files = <<>>
    /\ idMap = <<>>
    /\ selected = <<>>
    /\ folderPath = <<>>

Uuids == {"u1", "u2"}
GroupIds == {"g1"}
NoGroup == "none"
\* CHARACTER_SETS, two symbols of each
CHARACTER_SETS == << <<"0", "1">>, <<"a", "b">> >>
CREATION_ORDER_OPTIONS == {"incrementing", "random"}
\* the shape the settings panel is open for
ActiveShape == "u1"
\* a group id the group system has no group for
NoGroupInfo == [def |-> FALSE, characterSet |-> <<>>, creationOrder |-> "incrementing"]
NoModal == [kind |-> "none", group |-> NoGroup, order |-> "incrementing"]

\* no local id is reserved, no group exists, the active shape is owned and
\* the settings panel is as set up
InitGroups ==
    /\ localIds = {}
    /\ groups = [g \in GroupIds |-> NoGroupInfo]
    /\ groupMembers = [g \in GroupIds |-> {}]
    /\ shapeProps = [u \in Uuids |-> [showBadge |-> FALSE, showHighlight |-> FALSE]]
    /\ owned = TRUE
    /\ panel = [characterSetSelected |-> 0, customText |-> <<>>,
                defaultCreationOrder |-> "incrementing", activeGroupId |-> NoGroup]
    /\ modal = NoModal

\* what the group system, the local ids and the settings panel leave alone
notGroupVars == <<visionVars, isSnappable, layerPoints, systemVars, assetVars, listVars>>

\* the state of groups, local ids, shape properties and the panel as one value
Groups ==
    [localIds |-> localIds, groups |-> groups, groupMembers |-> groupMembers,
     shapeProps |-> shapeProps, panel |-> panel, modal |-> modal]

CommitGroups(g) ==
    /\ localIds' = g.localIds
    /\ groups' = g.groups
    /\ groupMembers' = g.groupMembers
    /\ shapeProps' = g.shapeProps
    /\ panel' = g.panel
    /\ modal' = g.modal

\* reserveLocalId(uuid)
reserveLocalId(ids, uuid) == ids \cup {uuid}

\* groupSystem.hasGroup(group) is defined
hasGroup(gs, group) == gs[group].def

\* groupSystem.addGroupMembers(group, [member], false)
addGroupMembers(members, group, uuid) == [members EXCEPT ![group] = @ \cup {uuid}]

ShapeTypes == {"rect", "togglecomposite", "hexagon"}
\* active_variant === null
NoVariant == "null"
\* the variants of a toggle composite of the model
Variants == <<"u2">>
\* ApiShape: uuid, group, type_, and active_variant of a toggle composite
ApiShapes ==
    [uuid : Uuids, group : GroupIds \cup {NoGroup}, type_ : ShapeTypes,
     active_variant : {NoVariant, "u2"}]

\* the group part of createShapeFromDict
joinGroup(g, shape) ==
    IF shape.group # NoGroup /\ hasGroup(g.groups, shape.group)
    THEN [g EXCEPT !.localIds = reserveLocalId(@, shape.uuid),
                   !.groupMembers = addGroupMembers(@, shape.group, shape.uuid)]
    ELSE g

\* the shape type part of createShapeFromDict: the state it leaves and what
\* it returns
construct(g, shape) ==
    IF shape.type_ = "rect" THEN [g |-> g, ret |-> "shape"]
    ELSE IF shape.type_ = "togglecomposite"
    THEN IF shape.active_variant = NoVariant
         THEN \* thrown and caught
              [g |-> g, ret |-> "undefined"]
         ELSE [g |-> [g EXCEPT !.localIds =
                          @ \cup {Variants[i] : i \in 1..Len(Variants)}],
               ret |-> "shape"]
    ELSE [g |-> g, ret |-> "undefined"]

\* createShapeFromDict(shape, floor, layerName)
CreateShapeFromDict(shape) ==
    LET r == construct(joinGroup(Groups, shape), shape)
    IN /\ CommitGroups(r.g)
       /\ ev' = Event("createShapeFromDict", shape.uuid, <<>>, r.ret)
       /\ UNCHANGED <<notGroupVars, owned>>

\* groupState.activeGroup.value is defined
activeGroup(g) == g.panel.activeGroupId # NoGroup

\* groupSystem.setCharacterSet(group, characterSet)
setCharacterSet(g, group, characterSet) ==
    [g EXCEPT !.groups[group].characterSet = characterSet]

\* groupSystem.setCreationOrder(group, order)
setCreationOrder(g, group, order) ==
    [g EXCEPT !.groups[group].creationOrder = order]

\* groupSystem.removeGroup(group, true)
removeGroup(g, group) ==
    [g EXCEPT !.groups[group] = NoGroupInfo,
              !.groupMembers[group] = {},
              !.panel.activeGroupId = IF @ = group THEN NoGroup ELSE @]

\* groupSystem.removeGroupMember(member, true)
removeGroupMember(g, member) ==
    [g EXCEPT !.groupMembers = [gr \in GroupIds |-> @[gr] \ {member}],
              !.panel.activeGroupId = IF member = ActiveShape THEN NoGroup ELSE @]

\* groupSystem.createNewGroupForShapes([id]), for the one group id of the model
createNewGroupForShapes(g, id) ==
    LET group == CHOOSE gr \in GroupIds : TRUE
    IN [g EXCEPT !.groups[group] = [def |-> TRUE, characterSet |-> CHARACTER_SETS[1],
                                    creationOrder |-> "incrementing"],
                 !.groupMembers[group] = {id},
                 !.localIds = @ \cup {id},
                 !.panel.activeGroupId = group]

\* propertiesSystem.setShowBadge(member, checked, sync)
setShowBadge(g, member, checked) == [g EXCEPT !.shapeProps[member].showBadge = checked]

\* the members of the active group, as the panel lists them
members(g) ==
    IF activeGroup(g) THEN g.groupMembers[g.panel.activeGroupId] ELSE {}

RECURSIVE split(_, _, _)
\* characterSet.split(","), over the characters of the text from index i on
split(text, i, parts) ==
    IF i > Len(text) THEN parts
    ELSE IF text[i] = "," THEN split(text, i + 1, Append(parts, ""))
    ELSE split(text, i + 1, [parts EXCEPT ![Len(parts)] = @ \o text[i]])

\* a handler of the panel: the state it leaves and the calls it makes; with
\* no edit access it returns at once
Handled(op, arg, g, calls) ==
    /\ modal = NoModal
    /\ IF owned
       THEN /\ CommitGroups(g)
            /\ ev' = Event(op, arg, calls, "ok")
       ELSE /\ CommitGroups(Groups)
            /\ ev' = Event(op, arg, <<>>, "returned")
    /\ UNCHANGED <<notGroupVars, owned>>

\* selectedCharacterSet = index
SetSelectedCharacterSet(index) ==
    LET g == Groups
        group == g.panel.activeGroupId
    IN IF ~activeGroup(g)
       THEN Handled("selectedCharacterSet", index,
                    [g EXCEPT !.panel.characterSetSelected = index], <<>>)
       ELSE IF index = Len(CHARACTER_SETS)
       THEN Handled("selectedCharacterSet", index, setCharacterSet(g, group, <<>>),
                    <<"setCharacterSet">>)
       ELSE IF index < Len(CHARACTER_SETS)
       THEN Handled("selectedCharacterSet", index,
                    setCharacterSet(g, group, CHARACTER_SETS[index + 1]),
                    <<"setCharacterSet", "invalidate">>)
       ELSE Handled("selectedCharacterSet", index, g, <<>>)

\* customCharacterSet = text
SetCustomCharacterSet(text) ==
    LET g == Groups
        value == split(text, 1, <<"">>)
    IN IF ~activeGroup(g)
       THEN Handled("customCharacterSet", text, [g EXCEPT !.panel.customText = value], <<>>)
       ELSE Handled("customCharacterSet", text,
                    setCharacterSet(g, g.panel.activeGroupId, value),
                    <<"setCharacterSet", "invalidate">>)

\* _setCreationOrder(order) up to its await
SetCreationOrder(order) ==
    LET g == Groups
    IN IF ~activeGroup(g)
       THEN Handled("_setCreationOrder", order,
                    [g EXCEPT !.panel.defaultCreationOrder = order], <<>>)
       ELSE Handled("_setCreationOrder", order,
                    [g EXCEPT !.modal = [kind |-> "_setCreationOrder",
                                         group |-> g.panel.activeGroupId,
                                         order |-> order]],
                    <<"confirm">>)

RECURSIVE toggleAll(_, _, _)
\* the loop of updateToggles over the members left
toggleAll(g, left, checked) ==
    IF left = {} THEN g
    ELSE LET member == CHOOSE x \in left : TRUE
         IN toggleAll(IF g.shapeProps[member].showBadge # checked
                      THEN setShowBadge(g, member, checked) ELSE g,
                      left \ {member}, checked)

\* updateToggles(checked)
UpdateToggles(checked) ==
    Handled("updateToggles", checked, toggleAll(Groups, members(Groups), checked), <<>>)

\* toggleHighlight(member, show), for a member the panel lists
ToggleHighlight(member, show) ==
    /\ member \in members(Groups)
    /\ Handled("toggleHighlight", member,
               [Groups EXCEPT !.shapeProps[member].showHighlight = show], <<"invalidate">>)

\* showBadge(member, checked), for a member the panel lists
ShowBadge(member, checked) ==
    /\ member \in members(Groups)
    /\ Handled("showBadge", member, setShowBadge(Groups, member, checked), <<>>)

\* removeMember(member), for a member the panel lists
RemoveMember(member) ==
    /\ member \in members(Groups)
    /\ Handled("removeMember", member, removeGroupMember(Groups, member),
               <<"removeGroupMember">>)

\* createGroup()
CreateGroup ==
    IF activeGroup(Groups)
    THEN Handled("createGroup", ActiveShape, Groups, <<>>)
    ELSE Handled("createGroup", ActiveShape, createNewGroupForShapes(Groups, ActiveShape),
                 <<"createNewGroupForShapes">>)

\* deleteGroup() up to its await
DeleteGroup ==
    IF ~activeGroup(Groups)
    THEN Handled("deleteGroup", ActiveShape, Groups, <<>>)
    ELSE Handled("deleteGroup", ActiveShape,
                 [Groups EXCEPT !.modal = [kind |-> "deleteGroup",
                                           group |-> Groups.panel.activeGroupId,
                                           order |-> "incrementing"]],
                 <<"confirm">>)

\* what a handler does when its dialog is answered
resumed(g, answer) ==
    LET closed == [g EXCEPT !.modal = NoModal]
    IN IF ~answer THEN closed
       ELSE IF g.modal.kind = "_setCreationOrder"
       THEN setCreationOrder(closed, g.modal.group, g.modal.order)
       ELSE removeGroup(closed, g.modal.group)

\* the dialog of _setCreationOrder or deleteGroup is answered and the
\* handler runs on
Confirm(answer) ==
    /\ modal # NoModal
    /\ CommitGroups(resumed(Groups, answer))
    /\ ev' = Event(modal.kind, answer,
                   IF ~answer THEN <<>>
                   ELSE IF modal.kind = "_setCreationOrder"
                   THEN <<"setCreationOrder", "invalidate">>
                   ELSE <<"removeGroup">>,
                   "resumed")
    /\ UNCHANGED <<notGroupVars, owned>>

\* the edit access of the user to the active shape changes
SetAccess(access) ==
    /\ owned # access
    /\ owned' = access
    /\ ev' = Event("access", access, <<>>, "ok")
    /\ UNCHANGED <<notGroupVars, localIds, groups, groupMembers, shapeProps, panel, modal>>

\* the shapes are kept out of the snapping index, nothing is registered,
\* uploaded or listed
InitElse ==
    /\ isSnappable = [s \in Shapes |-> FALSE]
    /\ InitLayers
    /\ InitSystems
    /\ InitAssets
    /\ InitLists
    /\ InitGroups

InitCache ==
    /\ floorIteration = [s \in Shapes |-> NoIteration]
    /\ visionIteration = [s \in Shapes |-> NoIteration]
    /\ visionPolygon = [s \in Shapes |-> Undefined]
    /\ visionPath = [s \in Shapes |-> Undefined]
    /\ visionBbox = [s \in Shapes |-> Undefined]

InitVisionState ==
    /\ iteration = [t \in Targets |-> [f \in Floors |-> 0]]
    /\ store = [t \in Targets |-> [f \in Floors |-> [s \in Shapes |-> {}]]]
    /\ floorIter = 0
    /\ ev = Event("init", 0, <<>>, "ok")

\* the shapes whose operations are explored; the others stay as constructed
Active == {1}

(* The polygon cache: every operation of the active shapes, among them the   *)
(* cache read, against the VISION store and counters, while the floor is     *)
(* not redrawn.                                                              *)

Init ==
    /\ floorId = [s \in Shapes |-> NoFloor]
    /\ refPoint \in {r \in [Shapes -> Points] : \A s \in Shapes \ Active : r[s] = <<0, 0>>}
    /\ center = [s \in Shapes |-> __center(s, refPoint[s])]
    /\ angle = [s \in Shapes |-> 0]
    /\ blocksVision \in {b \in [Shapes -> BOOLEAN] : \A s \in Shapes \ Active : ~b[s]}
    /\ blocksMovement = [s \in Shapes |-> FALSE]
    /\ InitNoTokens
    /\ InitCache
    /\ InitVisionState
    /\ InitElse

Next ==
    \/ \E s \in Active : VisionPolygon(s)
    \/ \E s \in Active : ResetVisionIteration(s)
    \/ \E s \in Active, p \in Points : SetCenter(s, p)
    \/ \E s \in Active, p \in Points : SetRefPoint(s, p)
    \/ \E s \in Active, a \in Angles : SetAngle(s, a)
    \/ \E s \in Active, f \in Floors : SetLayer(s, f)
    \/ \E s \in Active, am \in BOOLEAN, av \in BOOLEAN : UpdateShapeVision(s, am, av)
    \/ \E s \in Active, pos \in Positions : SetPositionRepresentation(s, pos)
    \/ \E f \in Floors : RecalculateVision(f)

Spec == Init /\ [][Next]_vars

(* The obstruction stores and counters of both target kinds under the        *)
(* store-updating operations of the active shapes, for every combination of  *)
(* blocking flags; no cache is read.                                         *)

InitStore ==
    /\ floorId = [s \in Shapes |-> NoFloor]
    /\ refPoint = [s \in Shapes |-> <<0, 0>>]
    /\ center = [s \in Shapes |-> __center(s, refPoint[s])]
    /\ angle = [s \in Shapes |-> 0]
    /\ blocksVision \in {b \in [Shapes -> BOOLEAN] : \A s \in Shapes \ Active : ~b[s]}
    /\ blocksMovement \in {b \in [Shapes -> BOOLEAN] : \A s \in Shapes \ Active : ~b[s]}
    /\ InitNoTokens
    /\ InitCache
    /\ InitVisionState
    /\ InitElse

NextStore ==
    \/ \E s \in Active, f \in Floors : SetLayer(s, f)
    \/ \E s \in Active, am \in BOOLEAN, av \in BOOLEAN : UpdateShapeVision(s, am, av)
    \/ \E s \in Active, pos \in Positions : SetPositionRepresentation(s, pos)
    \/ \E f \in Floors : RecalculateVision(f)
    \/ \E f \in Floors : RecalculateMovement(f)

SpecStore == InitStore /\ [][NextStore]_vars

(* The path cache: the cache read of a vision-blocking shape between redraws *)
(* of the floor, moves of its centre and reference point, changes of floor   *)
(* and bumps of the VISION counters.                                         *)

InitPath ==
    /\ floorId = [s \in Shapes |-> NoFloor]
    /\ refPoint = [s \in Shapes |-> <<0, 0>>]
    /\ center = [s \in Shapes |-> __center(s, refPoint[s])]
    /\ angle = [s \in Shapes |-> 0]
    /\ blocksVision = [s \in Shapes |-> s \in Active]
    /\ blocksMovement = [s \in Shapes |-> FALSE]
    /\ InitNoTokens
    /\ InitCache
    /\ InitVisionState
    /\ InitElse

NextPath ==
    \/ \E s \in Active : VisionPolygon(s)
    \/ \E s \in Active : ResetVisionIteration(s)
    \/ \E s \in Active, p \in Points : SetCenter(s, p)
    \/ \E s \in Active, p \in Points : SetRefPoint(s, p)
    \/ \E s \in Active, f \in Floors : SetLayer(s, f)
    \/ \E s \in Active, av \in BOOLEAN : UpdateShapeVision(s, FALSE, av)
    \/ \E f \in Floors : RecalculateVision(f)
    \/ Redraw

SpecPath == InitPath /\ [][NextPath]_vars

(* The cache read against the counters of both target kinds: reads of a     *)
(* shape that stays in place, for every combination of blocking flags,       *)
(* between updates of either store and bumps of either counter.              *)

NextTargets ==
    \/ \E s \in Active : VisionPolygon(s)
    \/ \E s \in Active, f \in Floors : SetLayer(s, f)
    \/ \E s \in Active, am \in BOOLEAN, av \in BOOLEAN : UpdateShapeVision(s, am, av)
    \/ \E f \in Floors : RecalculateVision(f)
    \/ \E f \in Floors : RecalculateMovement(f)

SpecTargets == InitStore /\ [][NextTargets]_vars

(* The obstruction store alone: adds and removes of two shapes, each placed  *)
(* on a floor or on none, in the stores of both target kinds.                *)

InitIndex ==
    /\ floorId \in [Shapes -> Floors \cup {NoFloor}]
    /\ refPoint \in [Shapes -> Points]
    /\ center = [s \in Shapes |-> __center(s, refPoint[s])]
    /\ angle = [s \in Shapes |-> 0]
    /\ blocksVision = [s \in Shapes |-> TRUE]
    /\ blocksMovement = [s \in Shapes |-> TRUE]
    /\ InitNoTokens
    /\ InitCache
    /\ InitVisionState
    /\ InitElse

NextIndex ==
    \/ \E t \in Targets, s \in Shapes : AddToTriangulation(t, s)
    \/ \E t \in Targets, s \in Shapes : DeleteFromTriangulation(t, s)

SpecIndex == InitIndex /\ [][NextIndex]_vars

(* The properties of the shapes: triggersVisionRecalc for every combination  *)
(* of token flag, blocking flags and auras.                                  *)

AuraLists ==
    {<<>>, <<[visionSource |-> FALSE]>>, <<[visionSource |-> TRUE]>>,
     <<[visionSource |-> FALSE], [visionSource |-> TRUE]>>}

InitProps ==
    /\ floorId = [s \in Shapes |-> NoFloor]
    /\ refPoint = [s \in Shapes |-> <<0, 0>>]
    /\ center = [s \in Shapes |-> __center(s, refPoint[s])]
    /\ angle = [s \in Shapes |-> 0]
    /\ blocksVision \in [Shapes -> BOOLEAN]
    /\ blocksMovement \in [Shapes -> BOOLEAN]
    /\ isToken \in [Shapes -> BOOLEAN]
    /\ auras \in [Shapes -> AuraLists]
    /\ InitCache
    /\ InitVisionState
    /\ InitElse

NextProps == \E s \in Shapes : TriggersVisionRecalc(s)

SpecProps == InitProps /\ [][NextProps]_vars

(* The cache read of a vision-blocking shape that is rotated about points    *)
(* of the map, between changes of floor and updates of the store.            *)

NextRotate ==
    \/ \E s \in Active : VisionPolygon(s)
    \/ \E s \in Active, p \in Points, a \in Angles : RotateAround(s, p, a)
    \/ \E s \in Active, f \in Floors : SetLayer(s, f)
    \/ \E s \in Active, av \in BOOLEAN : UpdateShapeVision(s, FALSE, av)

SpecRotate == InitPath /\ [][NextRotate]_vars

----------------------------------------------------------------------------
(* Properties                                                               *)

\* the step is a visionPolygon read of shape s
IsRead(s) == ev'.op = "visionPolygon" /\ ev'.s = s

VisionCounter(s) == iteration["VISION"][floorId[s]]

\* the cache of s holds a polygon computed at the current Vision iteration
\* of its floor
CacheCurrent(s) ==
    /\ floorId[s] # NoFloor
    /\ visionPolygon[s].def
    /\ visionIteration[s] = VisionCounter(s)

\* C1: once recalculateVision(f) has bumped the Vision counter of floor f, a
\* shape on f whose stored visionIteration differs from the new counter value
\* is due for recomputation, and a read of a shape whose stored iteration
\* differs from its floor's counter calls computeVisibility exactly once and
\* stores the current counter value.
C1_StaleReadRecomputes ==
    [][\A s \in Shapes :
        /\ (/\ floorId'[s] # NoFloor
            /\ VisionCounter(s)' # iteration["VISION"][floorId'[s]]
            /\ visionIteration'[s] # VisionCounter(s)')
           => mustRecompute(s)'
        /\ (/\ IsRead(s)
            /\ floorId[s] # NoFloor
            /\ visionIteration[s] # VisionCounter(s))
           => /\ ev'.calls = <<"computeVisibility">>
              /\ visionIteration'[s] = VisionCounter(s)'
              /\ iteration' = iteration]_vars

\* a read recomputed a polygon that had been computed before a bump
C1_Witness ==
    /\ ev.op = "visionPolygon"
    /\ ev.calls = <<"computeVisibility">>
    /\ floorId[ev.s] # NoFloor
    /\ VisionCounter(ev.s) >= 1
    /\ visionIteration[ev.s] = VisionCounter(ev.s)
    /\ visionPath[ev.s].def
    /\ visionBbox[ev.s].def

\* C2: a bump of the Vision counter of floor f leaves the cache of a shape on
\* another floor current and its polygon as it was, and a read of a shape
\* whose cache is current neither calls computeVisibility nor changes the
\* cached polygon.
C2_OtherFloorUntouched ==
    [][\A s \in Shapes :
        /\ (/\ \E f \in Floors : /\ iteration'["VISION"][f] # iteration["VISION"][f]
                                 /\ floorId[s] # f
            /\ CacheCurrent(s))
           => /\ CacheCurrent(s)'
              /\ visionPolygon'[s] = visionPolygon[s]
        /\ (IsRead(s) /\ CacheCurrent(s))
           => /\ ev'.calls = <<>>
              /\ visionPolygon'[s] = visionPolygon[s]]_vars

\* the counter of a floor was bumped while a shape with a current cache
\* sits on another floor
C2_Witness ==
    /\ ev.op = "recalculateVision"
    /\ \E s \in Shapes : CacheCurrent(s) /\ floorId[s] # ev.s

\* the cache of s would answer a read without any work
CacheSettled(s) ==
    /\ CacheCurrent(s)
    /\ visionPath[s].def
    /\ floorIteration[s] = floorIter

\* C3 (as claimed): whenever the stored visionIteration equals the current
\* Vision iteration of the shape's floor, a read returns the cached path
\* object and leaves polygon, path and bounding box as they were.
C3_Original ==
    [][\A s \in Shapes :
        (/\ IsRead(s)
         /\ floorId[s] # NoFloor
         /\ visionIteration[s] = VisionCounter(s))
        => /\ ev'.ret = "cached"
           /\ visionPolygon'[s] = visionPolygon[s]
           /\ visionPath'[s] = visionPath[s]
           /\ visionBbox'[s] = visionBbox[s]]_vars

\* C3 (amended): when the stored visionIteration equals the current Vision
\* iteration of the shape's floor, the cached polygon is present and the
\* floor redraw counter is the one the path was built at, a read calls
\* nothing, returns the cached path object and leaves polygon, path and
\* bounding box as they were; every read that returns a path leaves the
\* cache in such a state, so of two consecutive reads the second returns the
\* path object of the first.
C3_CachedReadIsStable ==
    [][\A s \in Shapes :
        /\ (IsRead(s) /\ CacheSettled(s))
           => /\ ev'.ret = "cached"
              /\ ev'.calls = <<>>
              /\ UNCHANGED cacheVars
        /\ (IsRead(s) /\ ev'.ret \in {"new", "cached"})
           => CacheSettled(s)']_vars

\* a read has answered from the cache
C3_Witness ==
    /\ ev.op = "visionPolygon"
    /\ ev.ret = "cached"
    /\ ev.calls = <<>>
    /\ CacheSettled(ev.s)

\* the state right after operation op of shape s
After(op, s) == ev.op = op /\ ev.s = s

\* C4 (as claimed): after the refPoint setter, the angle setter, the center
\* setter or a setPositionRepresentation that took a position, the next read
\* of a shape with a floor recomputes the polygon.
C4_Original ==
    \A s \in Shapes :
        (/\ floorId[s] # NoFloor
         /\ \/ After("refPoint", s)
            \/ After("angle", s)
            \/ After("center", s)
            \/ After("setPositionRepresentation", s) /\ ev.ret = "ok")
        => mustRecompute(s)

\* C4 (amended): after the refPoint setter, the center setter or a
\* setPositionRepresentation with a non-empty point list, the next read of a
\* shape with a floor recomputes the polygon whatever the Vision counter is.
C4_SettersInvalidate ==
    \A s \in Shapes :
        (/\ floorId[s] # NoFloor
         /\ \/ After("refPoint", s)
            \/ After("center", s)
            \/ After("setPositionRepresentation", s) /\ ev.ret = "ok")
        => mustRecompute(s)

\* the center was set on a shape whose cache was at the floor's iteration
C4_Witness ==
    \E s \in Shapes :
        /\ After("center", s)
        /\ floorId[s] # NoFloor
        /\ visionIteration[s] = VisionCounter(s)
        /\ visionPath[s].def
        /\ ~visionPolygon[s].def

\* C5 (as claimed): a cache whose stored visionIteration is the current
\* Vision counter of the shape's floor holds the polygon visible from the
\* shape's center in the obstruction store of that floor as it stands.
C5_Original ==
    \A s \in Shapes :
        CacheCurrent(s)
        => visionPolygon[s].val =
               computeVisibility(store, center[s], "VISION", floorId[s])

RecalcName(t) == IF t = "VISION" THEN "recalculateVision" ELSE "recalculateMovement"

Range(q) == {q[i] : i \in 1..Len(q)}

\* the last operation called the recalculate of target t for floor f
RecalcCalled(t, f) ==
    \/ ev.op = RecalcName(t) /\ ev.s = f
    \/ /\ ev.op \in {"updateShapeVision", "setPositionRepresentation"}
       /\ floorId[ev.s] = f
       /\ RecalcName(t) \in Range(ev.calls)

\* C6: every counter starts at 0, is never negative, and a step changes it
\* only by adding one, in an operation that called the recalculate of that
\* target kind for that floor.
C6_CountersOnlyIncrement ==
    /\ \A t \in Targets, f \in Floors : iteration[t][f] = 0
    /\ [][\A t \in Targets, f \in Floors :
            /\ iteration'[t][f] >= 0
            /\ iteration'[t][f] >= iteration[t][f]
            /\ iteration'[t][f] # iteration[t][f]
               => /\ iteration'[t][f] = iteration[t][f] + 1
                  /\ RecalcCalled(t, f)']_vars

\* counters of both target kinds have moved
C6_Witness ==
    \E f \in Floors, g \in Floors :
        /\ iteration["VISION"][f] = MaxIter
        /\ iteration["MOVEMENT"][g] = MaxIter
        /\ ev.op = "recalculateMovement"

\* C7: an updateShapeVision that puts the shape's segments into the store of
\* a target kind adds exactly one to the counter of that kind on the shape's
\* floor; it changes no other counter, and none when it reaches no store.
C7_OneBumpPerStoreUpdate ==
    [][\A s \in Shapes :
        (ev'.op = "updateShapeVision" /\ ev'.s = s)
        => \A t \in Targets :
             LET f == floorId[s]
                 touched == f # NoFloor /\ ("add." \o t) \in Range(ev'.calls)
             IN /\ touched =>
                     /\ store'[t][f][s] = Segments(refPoint[s], angle[s])
                     /\ iteration'[t] = [iteration[t] EXCEPT ![f] = @ + 1]
                /\ ~touched =>
                     /\ store'[t] = store[t]
                     /\ iteration'[t] = iteration[t]]_vars

\* an updateShapeVision has updated the MOVEMENT store alone
C7_Witness ==
    /\ ev.op = "updateShapeVision"
    /\ floorId[ev.s] # NoFloor
    /\ blocksVision[ev.s]
    /\ ev.calls = <<"invalidate", "invalidateLightAllFloors",
                    "delete.MOVEMENT", "add.MOVEMENT", "recalculateMovement">>
    /\ iteration["MOVEMENT"][floorId[ev.s]] = 1
    /\ iteration["VISION"][floorId[ev.s]] = 0

\* C8: right after resetVisionIteration() on a shape with a floor the stored
\* iteration differs from the floor's Vision counter, whatever its value, so
\* the next read recomputes.
C8_ResetForcesRecompute ==
    \A s \in Shapes :
        (After("resetVisionIteration", s) /\ floorId[s] # NoFloor)
        => visionAltered(s) /\ mustRecompute(s)

\* the iteration was reset on a shape holding a polygon, on a floor whose
\* counter has moved
C8_Witness ==
    \E s \in Shapes :
        /\ After("resetVisionIteration", s)
        /\ floorId[s] # NoFloor
        /\ visionPolygon[s].def
        /\ VisionCounter(s) >= 1

\* C9: a read of a shape without a floor returns an empty path, throws
\* nothing, calls nothing and leaves every cache field as it was.
C9_NoFloorReadIsEmpty ==
    [][\A s \in Shapes :
        (IsRead(s) /\ floorId[s] = NoFloor)
        => /\ ev'.ret = "empty"
           /\ ev'.calls = <<>>
           /\ UNCHANGED cacheVars]_vars

\* a shape without a floor was read
C9_Witness ==
    /\ ev.op = "visionPolygon"
    /\ ev.ret = "empty"
    /\ floorId[ev.s] = NoFloor

\* C10: a polygon held by the cache of a shape with a floor has at least
\* one point; no read throws, and a read returns the empty path exactly when
\* the shape has no floor.
C10_PolygonNonEmpty ==
    /\ \A s \in Shapes :
         (floorId[s] # NoFloor /\ visionPolygon[s].def)
         => Len(visionPolygon[s].val) >= 1
    /\ ev.op = "visionPolygon"
       => /\ ev.ret # "throw"
          /\ ev.ret = "empty" <=> floorId[ev.s] = NoFloor

\* a read stored a polygon cut short by a wall
C10_Witness ==
    /\ ev.op = "visionPolygon"
    /\ ev.calls = <<"computeVisibility">>
    /\ ev.ret = "new"
    /\ visionPolygon[ev.s].def
    /\ visionPolygon[ev.s].val[2][1] # ViewportRight

\* the step is one of the store and counter operations
IsStoreOp ==
    ev'.op \in {"updateShapeVision", "recalculateVision", "recalculateMovement",
                "addToTriangulation", "deleteFromTriangulation"}

\* C11: updateShapeVision, the store operations and the recalculates never
\* call computeVisibility and leave the cache fields of every shape as they
\* were; a step that calls computeVisibility is a visionPolygon read.
C11_NoEagerRecompute ==
    [][/\ IsStoreOp => /\ "computeVisibility" \notin Range(ev'.calls)
                       /\ UNCHANGED cacheVars
       /\ "computeVisibility" \in Range(ev'.calls) => ev'.op = "visionPolygon"]_vars

\* updateShapeVision changed the VISION store and counter under a shape whose
\* cache held a polygon of the iteration before
C11_Witness ==
    /\ ev.op = "updateShapeVision"
    /\ "add.VISION" \in Range(ev.calls)
    /\ floorId[ev.s] # NoFloor
    /\ visionPolygon[ev.s].def
    /\ visionIteration[ev.s] + 1 = VisionCounter(ev.s)

\* C12: a read of a shape with a floor calls computeVisibility exactly when
\* the polygon is missing or the stored iteration differs from the Vision
\* counter of the shape's floor, whatever the Movement counters are, and
\* recalculateMovement leaves every cache as current or as stale as it was.
C12_MovementBumpIsNoVisionBump ==
    [][\A s \in Shapes :
        /\ (IsRead(s) /\ floorId[s] # NoFloor)
           => ("computeVisibility" \in Range(ev'.calls)
               <=> (~visionPolygon[s].def \/ visionIteration[s] # VisionCounter(s)))
        /\ (ev'.op = "recalculateMovement" /\ floorId[s] # NoFloor)
           => /\ mustRecompute(s)' <=> mustRecompute(s)
              /\ UNCHANGED cacheVars]_vars

\* a read answered from the cache although the Movement counter of the
\* shape's floor has moved away from the stored iteration
C12_Witness ==
    /\ ev.op = "visionPolygon"
    /\ ev.calls = <<>>
    /\ floorId[ev.s] # NoFloor
    /\ CacheCurrent(ev.s)
    /\ iteration["MOVEMENT"][floorId[ev.s]] # visionIteration[ev.s]

\* the blocking flag of shape s for target kind t
Blocks(t, s) == IF t = "VISION" THEN blocksVision[s] ELSE blocksMovement[s]

\* the store of every floor and target kind holds exactly the segments of
\* the shapes on that floor whose flag for that kind is set
StoreExact ==
    \A t \in Targets, f \in Floors :
        UNION {store[t][f][s] : s \in Shapes}
        = UNION {Segments(refPoint[s], angle[s]) :
                    s \in {x \in Shapes : floorId[x] = f /\ Blocks(t, x)}}

\* C13 (as claimed): the refPoint setter, setPositionRepresentation and
\* updateShapeVision keep the store exact: a store that holds exactly the
\* geometry of the blocking shapes of each floor still does after the move.
C13_Original ==
    [][(/\ StoreExact
        /\ ev'.op \in {"refPoint", "setPositionRepresentation", "updateShapeVision"})
       => StoreExact']_vars

\* shape s owns no segment in the store of kind t on its floor
Absent(t, s) == floorId[s] = NoFloor \/ store[t][floorId[s]][s] = {}

\* C14: removing a shape from a store twice is removing it once, removing a
\* shape that owns no segment leaves the stores as they are, and so does the
\* delete with which updateShapeVision starts on a shape never added: the
\* branch then comes to the add alone.
C14_RemoveIdempotent ==
    \A t \in Targets, s \in Shapes :
        LET f == floorId[s]
            d == deleteFromTriangulation(store, t, f, s)
            w == [store |-> store, iteration |-> iteration, calls |-> <<>>]
        IN /\ deleteFromTriangulation(d, t, f, s) = d
           /\ Absent(t, s)
              => /\ d = store
                 /\ retriangulate(w, t, s, f, refPoint[s], angle[s]).store
                    = addToTriangulation(store, t, f, s, Segments(refPoint[s], angle[s]))

\* a shape was removed from one store while it and the other shape still own
\* segments elsewhere
C14_Witness ==
    /\ ev.op = "deleteFromTriangulation"
    /\ floorId[ev.s] # NoFloor
    /\ \E t \in Targets :
         /\ ev.calls = <<"delete." \o t>>
         /\ Absent(t, ev.s)
         /\ \E u \in Targets \ {t} : ~Absent(u, ev.s)
         /\ \E x \in Shapes \ {ev.s} : floorId[x] = floorId[ev.s] /\ ~Absent(t, x)

\* C15: removing a shape right after it was added leaves every other shape
\* with the segments it had before the add, in every store.
C15_AddRemoveRestoresOthers ==
    [][\A t \in Targets :
        (ev'.op = "addToTriangulation" /\ ev'.calls = <<"add." \o t>>)
        => LET s == ev'.s
               r == deleteFromTriangulation(store', t, floorId[s], s)
           IN \A x \in Shapes \ {s}, u \in Targets, f \in Floors :
                r[u][f][x] = store[u][f][x]]_vars

\* a shape was added to a store in which the other shape owns segments
C15_Witness ==
    /\ ev.op = "addToTriangulation"
    /\ floorId[ev.s] # NoFloor
    /\ \E t \in Targets :
         /\ ev.calls = <<"add." \o t>>
         /\ ~Absent(t, ev.s)
         /\ \E x \in Shapes \ {ev.s} : floorId[x] = floorId[ev.s] /\ ~Absent(t, x)

C17_Original ==
    ev.op = "triggersVisionRecalc"
    => (ev.ret = "true"
        <=> (isToken[ev.s] \/ SomeVisionSource(auras[ev.s]) \/ blocksVision[ev.s]))

\* C18 (as claimed): the path returned by a read that directly follows a
\* change of the shape's center (center setter or rotateAround) is built
\* from the polygon visible from the center as it is now.
C18_Original ==
    [][\A s \in Shapes :
        (/\ IsRead(s)
         /\ After("center", s) \/ After("rotateAround", s)
         /\ ev'.ret \in {"new", "cached"})
        => visionPath'[s].val.pts =
             Path2D(computeVisibility(store, center[s], "VISION", floorId[s]),
                    floorIter).pts]_vars

\* the calls come as delete, add, bump for each target kind
CallOrder(calls, floored) ==
    \A i \in 1..Len(calls), t \in Targets :
        /\ calls[i] = "delete." \o t
           => i < Len(calls) /\ calls[i + 1] = "add." \o t
        /\ calls[i] = "add." \o t
           => /\ i > 1 /\ calls[i - 1] = "delete." \o t
              /\ floored => i < Len(calls) /\ calls[i + 1] = RecalcName(t)
        /\ calls[i] = RecalcName(t)
           => i > 2 /\ calls[i - 1] = "add." \o t /\ calls[i - 2] = "delete." \o t

\* C19 (as claimed): for each target kind that updateShapeVision goes
\* through, the calls are delete, add and the recalculate of that kind, in
\* that order and next to each other.
C19_Original ==
    ev.op \in {"updateShapeVision", "setPositionRepresentation"}
    => CallOrder(ev.calls, TRUE)

\* C19 (amended): the calls of an updateShapeVision (also the one inside
\* setPositionRepresentation) come, for each target kind, as delete, add and
\* then the recalculate of that kind: every add directly follows the delete
\* of the same kind, every recalculate directly follows the add, and on a
\* shape with a floor every add is directly followed by the recalculate.
C19_DeleteAddBump ==
    ev.op \in {"updateShapeVision", "setPositionRepresentation"}
    => CallOrder(ev.calls, floorId[ev.s] # NoFloor)

\* an updateShapeVision went through both target kinds
C19_Witness ==
    /\ ev.op = "updateShapeVision"
    /\ ev.calls = <<"delete.VISION", "add.VISION", "recalculateVision",
                    "invalidate", "invalidateLightAllFloors",
                    "delete.MOVEMENT", "add.MOVEMENT", "recalculateMovement">>
    /\ store["VISION"][floorId[ev.s]][ev.s] # {}
    /\ store["MOVEMENT"][floorId[ev.s]][ev.s] # {}

\* the step calls into, or changes, the store or the counter of kind t
Touches(t) ==
    \/ ("delete." \o t) \in Range(ev'.calls)
    \/ ("add." \o t) \in Range(ev'.calls)
    \/ RecalcName(t) \in Range(ev'.calls)
    \/ store'[t] # store[t]
    \/ iteration'[t] # iteration[t]

\* C20: updateShapeVision(alteredMovement, alteredVision) touches the VISION
\* store and counter only if the shape blocks vision and alteredVision is
\* false, the MOVEMENT store and counter only if the shape blocks movement
\* and alteredMovement is false, and neither for a shape that blocks neither.
C20_BranchesFollowFlags ==
    [][\A s \in Shapes, am \in BOOLEAN, av \in BOOLEAN :
        UpdateShapeVision(s, am, av)
        => /\ Touches("VISION") => blocksVision[s] /\ ~av
           /\ Touches("MOVEMENT") => blocksMovement[s] /\ ~am
           /\ (~blocksVision[s] /\ ~blocksMovement[s])
              => store' = store /\ iteration' = iteration]_vars

\* an updateShapeVision that updated the VISION store of a shape blocking
\* both kinds and left the MOVEMENT store alone
C20_Witness ==
    /\ ev.op = "updateShapeVision"
    /\ blocksVision[ev.s] /\ blocksMovement[ev.s]
    /\ floorId[ev.s] # NoFloor
    /\ ev.calls = <<"delete.VISION", "add.VISION", "recalculateVision",
                    "invalidate", "invalidateLightAllFloors">>
    /\ store["MOVEMENT"][floorId[ev.s]][ev.s] = {}

\* C21: when only the floor redraw counter has moved since the last read (the
\* Vision counter of the shape's floor is the stored one and the polygon is
\* there), the next read builds a new path at the current redraw counter and
\* stores that counter, without calling computeVisibility and without
\* touching the polygon, the bounding box or the stored vision iteration.
C21_RedrawRebuildsPathOnly ==
    [][\A s \in Shapes :
        (/\ IsRead(s)
         /\ CacheCurrent(s)
         /\ visionPath[s].def
         /\ floorIteration[s] # floorIter)
        => /\ ev'.ret = "new"
           /\ ev'.calls = <<>>
           /\ visionPath'[s] = Defined(Path2D(visionPolygon[s].val, floorIter))
           /\ visionPath'[s] # visionPath[s]
           /\ floorIteration'[s] = floorIter
           /\ visionPolygon'[s] = visionPolygon[s]
           /\ visionBbox'[s] = visionBbox[s]
           /\ visionIteration'[s] = visionIteration[s]]_vars

\* a read after a redraw has rebuilt the path from the polygon it kept
C21_Witness ==
    \E s \in Shapes :
        /\ After("visionPolygon", s)
        /\ ev.ret = "new"
        /\ ev.calls = <<>>
        /\ floorIter > 0
        /\ floorIteration[s] = floorIter
        /\ visionPath[s].def
        /\ visionPath[s].val.view = floorIter
        /\ CacheCurrent(s)

----------------------------------------------------------------------------
(* The bounding box of the visible region: the cache read of a shape that   *)
(* carries auras, vision sources and others, among the walls of both        *)
(* shapes.                                                                  *)

AuraBoxLists ==
    {<<>>,
     <<[visionSource |-> FALSE, value |-> 1, dim |-> 0]>>,
     <<[visionSource |-> TRUE, value |-> 1, dim |-> 0]>>,
     <<[visionSource |-> TRUE, value |-> 0, dim |-> 0],
       [visionSource |-> FALSE, value |-> 1, dim |-> 1]>>,
     <<[visionSource |-> FALSE, value |-> 1, dim |-> 1],
       [visionSource |-> TRUE, value |-> 1, dim |-> 0]>>}

InitBbox ==
    /\ floorId = [s \in Shapes |-> IF s \in Active THEN NoFloor ELSE 1]
    /\ refPoint = [s \in Shapes |-> IF s \in Active THEN <<0, 0>> ELSE <<1, 0>>]
    /\ center = [s \in Shapes |-> __center(s, refPoint[s])]
    /\ angle = [s \in Shapes |-> 0]
    /\ blocksVision = [s \in Shapes |-> TRUE]
    /\ blocksMovement = [s \in Shapes |-> FALSE]
    /\ isToken = [s \in Shapes |-> FALSE]
    /\ auras \in {as \in [Shapes -> AuraBoxLists] : \A s \in Shapes \ Active : as[s] = <<>>}
    /\ InitCache
    /\ InitVisionState
    /\ InitElse

NextBbox ==
    \/ \E s \in Active : VisionPolygon(s)
    \/ \E s \in Active, p \in Points : SetRefPoint(s, p)
    \/ \E s \in Active, f \in Floors : SetLayer(s, f)
    \/ \E s \in Shapes : AddToTriangulation("VISION", s)

SpecBbox == InitBbox /\ [][NextBbox]_vars

\* the smallest axis-aligned box around the points of a polygon
TightBox(poly) ==
    LET xs == {poly[i][1] : i \in 1..Len(poly)}
        ys == {poly[i][2] : i \in 1..Len(poly)}
    IN BoundingRect(Min(xs), Min(ys), Max(xs) - Min(xs), Max(ys) - Min(ys))

\* the smallest box around the shape's own box and the squares of its
\* vision-source auras
VisionAuraBox(s) ==
    LET own == getAABB(refPoint[s], angle[s])
        vs == {i \in 1..Len(auras[s]) : auras[s][i].visionSource}
        rg(i) == getUnitDistance(auras[s][i].value + auras[s][i].dim)
        l == Min({own.x} \cup {refPoint[s][1] - rg(i) : i \in vs})
        t == Min({own.y} \cup {refPoint[s][2] - rg(i) : i \in vs})
        r == Max({own.x + own.w} \cup {refPoint[s][1] + rg(i) : i \in vs})
        b == Max({own.y + own.h} \cup {refPoint[s][2] + rg(i) : i \in vs})
    IN BoundingRect(l, t, r - l, b - t)

\* C22: a read that recomputes the polygon stores as bounding box the tight
\* axis-aligned box of the polygon's points cut down to the shape's aura box
\* taken over its vision-source auras only; for a polygon that is undefined
\* or has no points the bounding box is undefined.
C22_BboxIsTightBoxInAuraBox ==
    [][\A s \in Shapes :
        /\ (IsRead(s) /\ ev'.calls = <<"computeVisibility">>)
           => /\ visionPolygon'[s].def
              /\ visionBbox'[s] =
                   IF Len(visionPolygon'[s].val) = 0 THEN Undefined
                   ELSE Defined(intersect(TightBox(visionPolygon'[s].val),
                                          VisionAuraBox(s)))
        /\ recalcVisionBbox(Undefined, refPoint[s], angle[s], auras[s]) = Undefined
        /\ recalcVisionBbox(Defined(<<>>), refPoint[s], angle[s], auras[s]) = Undefined]_vars

\* a recomputing read of a shape that carries an aura that is no vision
\* source has stored a bounding box
C22_Witness ==
    \E s \in Shapes :
        /\ After("visionPolygon", s)
        /\ ev.calls = <<"computeVisibility">>
        /\ \E i \in 1..Len(auras[s]) : ~auras[s][i].visionSource
        /\ \E i \in 1..Len(auras[s]) : auras[s][i].visionSource
        /\ visionBbox[s].def
        /\ visionBbox[s].val # TightBox(visionPolygon[s].val)
        /\ visionBbox[s].val.w > 0

----------------------------------------------------------------------------
(* The registry of systems: registrations, each key and each system once,   *)
(* between drops of shapes and clears.                                      *)

\* the shapes as constructed, on no floor, the vision state untouched
InitStill ==
    /\ floorId = [s \in Shapes |-> NoFloor]
    /\ refPoint = [s \in Shapes |-> <<0, 0>>]
    /\ center = [s \in Shapes |-> __center(s, refPoint[s])]
    /\ angle = [s \in Shapes |-> 0]
    /\ blocksVision = [s \in Shapes |-> FALSE]
    /\ blocksMovement = [s \in Shapes |-> FALSE]
    /\ InitNoTokens
    /\ InitCache
    /\ InitVisionState

InitRegistry ==
    /\ InitStill
    /\ InitElse

NextSystems ==
    \/ \E key \in Keys, system \in Systems, isShapeSystem \in BOOLEAN, state \in States :
          /\ ~has(SYSTEMS, key)
          /\ \A i \in 1..Len(SYSTEMS) : SYSTEMS[i].value # system
          /\ RegisterSystem(key, system, isShapeSystem, state)
    \/ \E id \in Shapes : DropFromSystems(id)
    \/ \E partial \in BOOLEAN : ClearSystems(partial)

SpecSystems == InitRegistry /\ [][NextSystems]_vars

(* The same with keys registered again, under any system and either flag.   *)

NextReregister ==
    \/ \E key \in Keys, system \in Systems, isShapeSystem \in BOOLEAN, state \in States :
          RegisterSystem(key, system, isShapeSystem, state)
    \/ \E id \in Shapes : DropFromSystems(id)
    \/ \E partial \in BOOLEAN : ClearSystems(partial)

SpecReregister == InitRegistry /\ [][NextReregister]_vars

\* the entries dropFromSystems would call drop on
DropTargets == dropTargets(SYSTEMS, SHAPE_SYSTEMS)

C24_Original ==
    [][(ev'.op = "registerSystem" /\ ev'.calls = <<>>)
       => \A i \in 1..Len(DropTargets') : DropTargets'[i].key # ev'.s]_vars

----------------------------------------------------------------------------
(* The snapping point index: both shapes, snappable or not, moved, turned,  *)
(* put on floors and indexed.                                               *)

InitPoints ==
    /\ InitStill
    /\ isSnappable \in [Shapes -> BOOLEAN]
    /\ InitLayers
    /\ InitSystems
    /\ InitAssets
    /\ InitLists
    /\ InitGroups

NextPoints ==
    \/ \E s \in Shapes, p \in Points : SetRefPoint(s, p)
    \/ \E s \in Shapes, a \in Angles : SetAngle(s, a)
    \/ \E s \in Shapes, f \in Floors : SetLayer(s, f)
    \/ \E s \in Shapes : UpdateLayerPoints(s)

SpecPoints == InitPoints /\ [][NextPoints]_vars

\* the keys of an index under which a shape is entered
KeysOf(pts, s) == {k \in DOMAIN pts : s \in pts[k]}

\* the step is one in which updateLayerPoints of s has run on a layer
UpdatesLayerPoints(s) ==
    /\ floorId[s] # NoFloor
    /\ ev'.s = s
    /\ \/ ev'.op = "updateLayerPoints"
       \/ ev'.op \in {"refPoint", "angle"} /\ isSnappable[s]

\* C25: after updateLayerPoints of a shape the point index of its layer holds
\* the shape's id under exactly the keys of the shape's current points, no
\* key of the index maps to an empty set, and the keys under which the other
\* shapes are entered are the ones they were entered under before.
C25_IndexHoldsCurrentPoints ==
    [][\A s \in Shapes :
        UpdatesLayerPoints(s)
        => LET before == layerPoints[floorId[s]]
               after == layerPoints'[floorId'[s]]
               ps == points(refPoint'[s], angle'[s])
           IN /\ KeysOf(after, s) = {stringify(ps[i]) : i \in 1..Len(ps)}
              /\ \A k \in DOMAIN after : after[k] # {}
              /\ \A t \in Shapes \ {s} : KeysOf(after, t) = KeysOf(before, t)
              /\ \A f \in Floors \ {floorId[s]} : layerPoints'[f] = layerPoints[f]]_vars

\* a shape has left a key it shared with the other shape and a key it held
\* alone
C25_Witness ==
    \E s \in Shapes : \E t \in Shapes \ {s} :
        /\ After("refPoint", s)
        /\ isSnappable[s]
        /\ floorId[s] # NoFloor
        /\ floorId[t] = floorId[s]
        /\ refPoint[t] # refPoint[s]
        /\ KeysOf(layerPoints[floorId[s]], t) # {}
        /\ KeysOf(layerPoints[floorId[s]], s) # {}
        /\ KeysOf(layerPoints[floorId[s]], s) \cap KeysOf(layerPoints[floorId[s]], t) = {}

----------------------------------------------------------------------------
(* One upload: a call of upload with any list of files, empty files and     *)
(* files of one and of two slices among them, over a socket that is open or *)
(* has to be opened, with the server's acknowledgements and notices.        *)

\* the most files handed to one call
MaxFiles == 2

Sizes == {0, 1, CHUNK_SIZE, CHUNK_SIZE + 1}
Files == [name : FileNames, size : Sizes]
FileLists == UNION {[1..n -> Files] : n \in 0..MaxFiles}

\* the asset manager's page is open: its socket is connected and the root set
InitAssetsOpen ==
    /\ socket = "connected"
    /\ root = TRUE
    /\ rootCallback = <<>>
    /\ expectedUploads = 0
    /\ resolvedUploads = 0
    /\ pendingUploads = <<>>
    /\ uploads = [u \in Calls |-> Idle]
    /\ sent = <<>>
    /\ uuids = 0

InitUpload ==
    /\ InitStill
    /\ isSnappable = [s \in Shapes |-> FALSE]
    /\ InitLayers
    /\ InitSystems
    /\ InitLists
    /\ InitGroups
    /\ InitAssets \/ InitAssetsOpen

NextUpload ==
    \/ \E fls \in FileLists : Upload(1, fls)
    \/ Connected
    \/ SetRoot
    \/ Ack(1)
    \/ \E file \in FileNames : ResolveUpload(file)

SpecUpload == InitUpload /\ [][NextUpload]_vars

(* Two uploads that overlap, of files of one and of two slices, with the    *)
(* server's acknowledgements, notices and folder listings.                  *)

OverlapLists ==
    {<<>>,
     <<[name |-> "a", size |-> CHUNK_SIZE + 1]>>,
     <<[name |-> "b", size |-> 1]>>,
     <<[name |-> "b", size |-> 1], [name |-> "a", size |-> CHUNK_SIZE + 1]>>}
ChildLists ==
    {<<[id |-> 2, name |-> "a", isFile |-> TRUE]>>,
     <<[id |-> 2, name |-> "a", isFile |-> TRUE], [id |-> 3, name |-> "b", isFile |-> TRUE]>>}

NextOverlap ==
    \/ \E u \in Calls, fls \in OverlapLists : Upload(u, fls)
    \/ Connected
    \/ SetRoot
    \/ \E u \in Calls : Ack(u)
    \/ \E file \in FileNames : ResolveUpload(file)
    \/ \E children \in ChildLists : SetFolderData(RootId, children)

SpecOverlap == InitUpload /\ [][NextOverlap]_vars

\* the asset manager's page is open and nothing is listed
InitListing ==
    /\ InitStill
    /\ isSnappable = [s \in Shapes |-> FALSE]
    /\ InitLayers
    /\ InitSystems
    /\ InitLists
    /\ InitGroups
    /\ InitAssetsOpen

\* the parents addAsset is called with: none, and a folder that is not open
Parents == {NoAsset, 2}

\* the assets the server names: a folder, a file, and the folder's id once
\* more for a file
ListingAssets ==
    {[id |-> 2, name |-> "b", isFile |-> FALSE],
     [id |-> 3, name |-> "a", isFile |-> TRUE],
     [id |-> 2, name |-> "b", isFile |-> TRUE]}

ListingChildren ==
    {<<[id |-> 2, name |-> "b", isFile |-> FALSE]>>,
     <<[id |-> 3, name |-> "a", isFile |-> TRUE], [id |-> 2, name |-> "b", isFile |-> FALSE]>>}

NextListing ==
    \/ \E asset \in ListingAssets, parent \in Parents : AddAsset(asset, parent)
    \/ \E children \in ListingChildren : SetFolderData(RootId, children)
    \/ \E asset \in AssetIds : RemoveAsset(asset)
    \/ \E inode \in AssetIds : MoveInode(inode, RootId)
    \/ Clear
    \/ \E inode \in AssetIds : AddSelectedInode(inode)
    \/ RemoveSelection

SpecListing == InitListing /\ [][NextListing]_vars

\* the folders the server names, one inside the other
DirAssets ==
    {[id |-> 2, name |-> "a", isFile |-> FALSE],
     [id |-> 3, name |-> "b", isFile |-> FALSE]}

NextDirs ==
    \/ \E asset \in DirAssets : AddAsset(asset, NoAsset)
    \/ \E inode \in AssetIds : AddSelectedInode(inode)
    \/ Clear
    \/ \E target \in AssetIds \cup {POP, RootId} : ChangeDirectory(target)

SpecDirs == InitListing /\ [][NextDirs]_vars

\* the game is open: shapes arrive from the server while groups are made
\* and left
InitGroup ==
    /\ InitStill
    /\ isSnappable = [s \in Shapes |-> FALSE]
    /\ InitLayers
    /\ InitSystems
    /\ InitAssets
    /\ InitLists
    /\ InitGroups

NextCreate ==
    \/ \E shape \in ApiShapes : CreateShapeFromDict(shape)
    \/ CreateGroup
    \/ \E member \in Uuids : RemoveMember(member)
    \/ DeleteGroup
    \/ \E answer \in BOOLEAN : Confirm(answer)
    \/ \E access \in BOOLEAN : SetAccess(access)

SpecCreate == InitGroup /\ [][NextCreate]_vars

\* the texts typed into the custom character set
Texts == {<<"x">>, <<"x", ",", "y">>}

NextGroup ==
    \/ \E index \in 0..Len(CHARACTER_SETS) : SetSelectedCharacterSet(index)
    \/ \E text \in Texts : SetCustomCharacterSet(text)
    \/ \E order \in CREATION_ORDER_OPTIONS : SetCreationOrder(order)
    \/ \E checked \in BOOLEAN : UpdateToggles(checked)
    \/ \E member \in Uuids, show \in BOOLEAN : ToggleHighlight(member, show)
    \/ \E member \in Uuids, checked \in BOOLEAN : ShowBadge(member, checked)
    \/ \E member \in Uuids : RemoveMember(member)
    \/ CreateGroup
    \/ DeleteGroup
    \/ \E answer \in BOOLEAN : Confirm(answer)
    \/ \E access \in BOOLEAN : SetAccess(access)

SpecGroup == InitGroup /\ [][NextGroup]_vars

\* the messages of a log before index i that carry the uuid of message i
Earlier(log, i) == {j \in 1..(i - 1) : log[j].uuid = log[i].uuid}

\* C26: upload emits the slices of one file in the order 0 .. totalSlices - 1
\* under one uuid, each slice after the acknowledgement of the slice before
\* it, and the first slice of the next file after the acknowledgement of the
\* last slice of the file before it.
C26_SlicesInOrderAfterAck ==
    [][/\ \A i \in 1..Len(sent') :
            /\ sent'[i].slice = Cardinality(Earlier(sent', i))
            /\ sent'[i].slice < sent'[i].totalSlices
            /\ \A j \in Earlier(sent', i) :
                  /\ sent'[j].name = sent'[i].name
                  /\ sent'[j].totalSlices = sent'[i].totalSlices
       /\ sent' # sent
          => /\ Len(sent') = Len(sent) + 1
             /\ \A i \in 1..Len(sent) : sent'[i] = sent[i]
             /\ sent # <<>>
                => LET new == sent'[Len(sent')]
                       old == sent[Len(sent)]
                   IN /\ uploads[1].pc = "awaitAck"
                      /\ ev'.op = "ack"
                      /\ IF new.slice = 0
                         THEN /\ new.uuid # old.uuid
                              /\ old.slice = old.totalSlices - 1
                         ELSE /\ new.uuid = old.uuid
                              /\ new.slice = old.slice + 1]_vars

\* both slices of a first file and the first slice of a second one are out
C26_Witness ==
    /\ Len(sent) = 3
    /\ sent[1].slice = 0
    /\ sent[2].slice = 1
    /\ sent[2].uuid = sent[1].uuid
    /\ sent[3].slice = 0
    /\ sent[3].uuid # sent[1].uuid
    /\ sent[3].totalSlices = 2
    /\ uploads[1].pc = "awaitAck"

\* call u has sent a slice and has more to send: slices of the same file or
\* further files
StillSending(u) ==
    /\ uploads[u].pc = "awaitAck"
    /\ \/ uploads[u].slice + 1 < uploads[u].slices
       \/ uploads[u].file < Len(uploads[u].fls)

\* C27 (as claimed): of two overlapping calls of upload that both began
\* while the socket was disconnected, the one that finishes first does not
\* disconnect the socket while the other waits for an acknowledgement.
C27_Original ==
    [][(/\ \A u \in Calls : uploads'[u].closeSocket
        /\ socket # "disconnected"
        /\ socket' = "disconnected")
       => \A u \in Calls : uploads'[u].pc # "awaitAck"]_vars

\* C28 (as claimed): the counters expectedUploads and resolvedUploads go
\* back to 0 only when no upload is in flight; in particular a resolveUpload
\* that setFolderData makes for a child named like a pending file does not
\* reset them while slices of that file are still to be sent.
C28_Original ==
    [][(ev'.op = "setFolderData" /\ expectedUploads > 0 /\ expectedUploads' = 0)
       => \A u \in Calls : ~StillSending(u)']_vars

\* C29: resolvedUploads never leaves the range 0 .. expectedUploads; after
\* a resolveUpload, alone or in setFolderData, either resolvedUploads is
\* below expectedUploads or both are 0; and a resolveUpload of a name that
\* is not in pendingUploads changes nothing.
C29_CountersInRange ==
    [][/\ 0 <= resolvedUploads' /\ resolvedUploads' <= expectedUploads'
       /\ ev'.op \in {"resolveUpload", "setFolderData"}
          => \/ resolvedUploads' < expectedUploads'
             \/ resolvedUploads' = 0 /\ expectedUploads' = 0
       /\ (ev'.op = "resolveUpload" /\ findIndex(pendingUploads, ev'.s) = 0)
          => UNCHANGED assetVars
       /\ (/\ ev'.op = "setFolderData"
           /\ \A i \in 1..Len(ev'.s) : findIndex(pendingUploads, ev'.s[i]) = 0)
          => UNCHANGED assetVars]_vars

\* a resolveUpload has left one of two expected uploads open while another
\* file is pending
C29_Witness ==
    /\ ev.op = "resolveUpload"
    /\ expectedUploads = 2
    /\ resolvedUploads = 1
    /\ findIndex(pendingUploads, ev.s) = 0
    /\ pendingUploads # <<>>

RECURSIVE SumOf(_, _)
\* the sum of the numbers of a sequence from index i on
SumOf(q, i) == IF i > Len(q) THEN 0 ELSE q[i] + SumOf(q, i + 1)

\* C30 (as claimed): every file handed to upload, an empty one included,
\* causes at least one Asset.Upload message; a file is sent in
\* ceil(size / 100000) slices of at most 100000 bytes each, and the lengths
\* of its slices add up to its size.
C30_Original ==
    uploads[1].pc = "done"
    => LET fls == uploads[1].fls
       IN /\ Cardinality({sent[i].uuid : i \in 1..Len(sent)}) = Len(fls)
          /\ Len(sent) = SumOf([i \in 1..Len(fls) |-> ceil(fls[i].size, CHUNK_SIZE)], 1)
          /\ \A i \in 1..Len(sent) : sent[i].data <= CHUNK_SIZE
          /\ SumOf([i \in 1..Len(sent) |-> sent[i].data], 1)
               = SumOf([i \in 1..Len(fls) |-> fls[i].size], 1)

\* how often an id is in a list
Count(list, y) == Cardinality({i \in 1..Len(list) : list[i] = y})

\* both lists hold an id as often after the step as before it
KeepsId(y) ==
    /\ Count(folders', y) = Count(folders, y)
    /\ Count(files', y) = Count(files, y)

\* C31 (as claimed): removeAsset(asset) and moveInode(inode, target) remove
\* only the given id from the lists of folders and files; every other id
\* stays listed, also when the given id is in neither list or is removed a
\* second time, as by removeSelection over a selection that holds an inode
\* twice.
C31_Original ==
    [][/\ ev'.op \in {"removeAsset", "moveInode"}
          => \A y \in AssetIds \ {ev'.s} : KeepsId(y)
       /\ ev'.op = "removeSelection"
          => \A y \in AssetIds : ~includes(ev'.s, y) => KeepsId(y)]_vars

\* no id is twice in a list
NoDuplicates(list) == \A y \in AssetIds : Count(list, y) <= 1

\* C32 (as claimed): after any sequence of addAsset, setFolderData,
\* removeAsset, moveInode and clear, neither the list of folders nor the list
\* of files holds an id twice, and no id is in both lists.
C32_Original ==
    /\ NoDuplicates(folders)
    /\ NoDuplicates(files)
    /\ \A y \in AssetIds : ~(includes(folders, y) /\ includes(files, y))

\* C33: when upload fails because no target can be determined, it throws
\* before it changes expectedUploads or pendingUploads and without emitting
\* an Asset.Upload message, and the socket is in the connection state it had
\* when upload was called: the call has not connected it.
C33_ThrowsBeforeAnyEffect ==
    [][\A u \in Calls :
          (uploads[u].pc # "thrown" /\ uploads'[u].pc = "thrown")
          => /\ expectedUploads' = expectedUploads
             /\ pendingUploads' = pendingUploads
             /\ sent' = sent
             /\ socket' = socket
             /\ uploads[u].pc = "idle"
             /\ ~uploads'[u].closeSocket]_vars

\* a call with files has thrown while the other call waits for the root on
\* a connected socket
C33_Witness ==
    \E u \in Calls :
        /\ uploads[u].pc = "thrown"
        /\ uploads[u].fls # <<>>
        /\ ev.op = "upload" /\ ev.ret = "thrown"
        /\ socket = "connected"
        /\ expectedUploads = 0
        /\ \E v \in Calls \ {u} : uploads[v].pc = "waitRoot"

\* the ids of a folder path
PathIds(path) == [i \in 1..Len(path) |-> path[i].id]

\* C34: changeDirectory(target) with target an id on the folder path ends
\* with the current folder equal to target and with a path that is the prefix
\* of the path before, ending at target; every call of changeDirectory ends
\* with an empty selection and exactly one folder request, for the current
\* folder it leaves.
C34_ChangeDirectoryPopsToTarget ==
    [][ev'.op = "changeDirectory"
       => /\ selected' = <<>>
          /\ ev'.calls = <<[fn |-> "sendFolderGet",
                            folder |-> currentFolder(folderPath', root')]>>
          /\ includes(PathIds(folderPath), ev'.s)
             => /\ currentFolder(folderPath', root') = ev'.s
                /\ Len(folderPath') <= Len(folderPath)
                /\ folderPath' = SubSeq(folderPath, 1, Len(folderPath'))
                /\ folderPath'[Len(folderPath')].id = ev'.s]_vars

\* changeDirectory has gone up from the second folder of the path to the
\* first
C34_Witness ==
    /\ ev.op = "changeDirectory"
    /\ ev.s = 2
    /\ ev.ret = [branch |-> "up", popped |-> 1]
    /\ PathIds(folderPath) = <<2>>
    /\ selected = <<>>
    /\ ev.calls = <<[fn |-> "sendFolderGet", folder |-> 2]>>

\* C35 (as claimed): when createShapeFromDict returns undefined, for an
\* unknown shape type or an exception while the shape is constructed such as
\* a toggle composite without active variant, it has modified no state: no
\* local id was reserved and no group member was added for the uuid of the
\* shape.
C35_Original ==
    [][(ev'.op = "createShapeFromDict" /\ ev'.ret = "undefined")
       => /\ localIds' = localIds
          /\ groupMembers' = groupMembers]_vars

\* the group state and the shape properties
GroupData == <<groups, groupMembers, shapeProps>>

\* the handlers of the settings panel
Handlers ==
    {"selectedCharacterSet", "customCharacterSet", "_setCreationOrder", "updateToggles",
     "toggleHighlight", "showBadge", "removeMember", "createGroup", "deleteGroup"}

\* C36 (as claimed): while the user has no edit access to the active shape,
\* no handler of the group settings changes group state or shape properties:
\* setting the character set or the custom character set, changing the
\* creation order, toggling badges, highlighting, removing a member, creating
\* a group and deleting a group are all without effect.
C36_Original ==
    [][(ev'.op \in Handlers /\ ~owned) => UNCHANGED GroupData]_vars

\* a handler that is called without edit access returns at once
CalledWithoutAccessReturns ==
    [][(ev'.op \in Handlers /\ ev'.ret # "resumed" /\ ~owned)
       => /\ UNCHANGED <<GroupData, panel, modal, localIds>>
          /\ ev'.calls = <<>>]_vars

====
